---------------------------- MODULE Spec2Model ----------------------------
(***************************************************************************)
(* State-machine model of the maple-lofi / soundweave orchestration layer: *)
(* the crossfade scheduler and the merge stage (stages/merge.py), the      *)
(* merge and aesthetic filter-graph builders (ffmpeg/commands.py), the     *)
(* ingest stage (stages/ingest.py) and Pipeline.run with its ledger        *)
(* (pipeline.py, logging/manifest.py, cli.py).                             *)
(*                                                                         *)
(* Time is counted in ticks, TicksPerSecond ticks to the second.  Track    *)
(* durations are even tick counts, so that min_duration * 0.5 is a whole   *)
(* number of ticks and the float arithmetic of the source is exact here.   *)
(***************************************************************************)
EXTENDS Integers, Sequences, FiniteSets, TLC

VARIABLES
    pc,                   \* position of the running program
    tracks,               \* merge_stage: the ordered AudioTrack list
    default_crossfade_s,  \* merge_stage: config.fade_ms / 1000.0, in ticks
    crossfades,           \* merge_stage: the crossfade plan
    warnings,             \* logger.warning calls of the scheduler, in order
    filter_parts,         \* the builder's list of filter-graph nodes
    current_label,        \* build_merge_command: the fold's accumulated label
    cmd,                  \* the command the builder returned (list of text)
    config,               \* build_lofi_command: the PipelineConfig fields read
    current_stream,       \* build_lofi_command: the chain's last label
    tempo,                \* build_lofi_command: the local tempo, <<num, den>>
    mp3_cmd,              \* build_lofi_command: the second command returned
    raised,               \* the exception in flight, "none" when there is none
    exit_code,            \* the status main returns, -1 while running
    package,              \* whose Pipeline.run is running; "" for a stage on its own
    skip_lofi,            \* config.skip_lofi
    image,                \* config.cover_image / config.static_image is set
    num_tracks,           \* config.num_tracks, 0 when falsy
    audio_files,          \* ingest_stage: the names of the discovered files
    order_file_exists,    \* input_dir / "order.txt" exists
    order_lines,          \* the lines of order.txt, each a list of words
    ordered_filenames,    \* ingest_stage: the filenames in playback order
    log,                  \* the records ingest_stage wrote to the logger
    error_message,        \* str(e) of the exception in flight
    manifest,             \* ManifestBuilder.data: the ledger in memory
    manifest_file,        \* manifest.json: << >>, or <<the data written>>
    write_calls,          \* the calls of ManifestBuilder.write so far
    calls,                \* the stage functions called so far, in order
    requests,             \* the commands handed to run_ffmpeg so far
    artifacts,            \* the output files written so far
    item_list,                \* natural_sort: the list it is given
    reordered,            \* natural_sort: the same names, listed in another order
    sorted_items,         \* natural_sort(item_list)
    sorted_reordered,     \* natural_sort(reordered)
    actual_timestamps,    \* write_youtube_description: the argument, << >> for None
    timestamps,           \* the (offset, name) pairs written to the description
    final_audio           \* Pipeline.run: the audio the video stage is given

vars == <<pc, tracks, default_crossfade_s, crossfades, warnings,
          filter_parts, current_label, cmd, config, current_stream, tempo,
          mp3_cmd, raised, exit_code, package, skip_lofi, image, num_tracks,
          audio_files, order_file_exists, order_lines, ordered_filenames, log,
          error_message, manifest, manifest_file, write_calls, calls,
          requests, artifacts, final_audio, item_list, reordered, sorted_items,
          sorted_reordered, actual_timestamps, timestamps>>

mergeVars == <<tracks, default_crossfade_s, crossfades, warnings, current_label>>
lofiVars == <<config, current_stream, tempo, mp3_cmd>>
configVars == <<package, skip_lofi, image, num_tracks>>
sortVars == <<item_list, reordered, sorted_items, sorted_reordered>>
(* what no step of a run or of a stage assigns: the configuration and the  *)
(* arguments of the functions that are applied on their own                *)
inputVars == <<configVars, sortVars, actual_timestamps>>
otherVars == <<inputVars, timestamps>>
ingestVars == <<audio_files, order_file_exists, order_lines, ordered_filenames, log>>
ledgerVars == <<manifest, manifest_file, write_calls>>
traceVars == <<calls, requests, artifacts>>
runVars == <<otherVars, ingestVars, error_message, ledgerVars, traceVars,
             final_audio>>

----------------------------------------------------------------------------
(* Bounds of the model *)

TicksPerSecond == 4
MaxTracks == 3
MaxDurationSteps == 6
MaxDefault == 13

MaxTempo == 40
MaxTempoNodes == 4
MaxDrumsStart == 1

OneSecond == TicksPerSecond

(* tempo factors are counted in units of 1 / TempoUnit; a power of two     *)
(* keeps every factor and every halving of it an exact float               *)
TempoUnit == 8

Durations == { 2 * k : k \in 1..MaxDurationSteps }
Defaults == 0..MaxDefault

Min(a, b) == IF a < b THEN a ELSE b
Max(a, b) == IF a > b THEN a ELSE b
Half(m) == m \div 2

FileName(i) == "track" \o ToString(i) \o ".mp3"

(* AudioTrack lists of length n: distinct files, any durations *)
TrackLists(n) ==
    { [i \in 1..n |-> [filename |-> FileName(i), duration_s |-> ds[i]]] :
        ds \in [1..n -> Durations] }

----------------------------------------------------------------------------
(* stages/merge.py: calculate_crossfade_durations *)

min_duration(track1, track2) == Min(track1.duration_s, track2.duration_s)

(* variant: the shrunk crossfade is not floored at one second *)
crossfade_s_no_floor(track1, track2, default_s) ==
    IF min_duration(track1, track2) < default_s
    THEN Half(min_duration(track1, track2))
    ELSE default_s

(* variant: the pair is shrunk as soon as the default exceeds half of the  *)
(* shorter track                                                           *)
crossfade_s_half_test(track1, track2, default_s) ==
    IF Half(min_duration(track1, track2)) < default_s
    THEN Max(OneSecond, Half(min_duration(track1, track2)))
    ELSE default_s

(* lines 45-54: the crossfade of one adjacent pair *)
crossfade_s(track1, track2, default_s) ==
    IF min_duration(track1, track2) < default_s
    THEN Max(OneSecond, Half(min_duration(track1, track2)))
    ELSE default_s

(* line 49: the track the warning names *)
warned_filename(track1, track2) ==
    IF track1.duration_s < track2.duration_s
    THEN track1.filename
    ELSE track2.filename

(* lines 48-52: the warning of pair i, <<>> when the pair is not shrunk.   *)
(* The field pair is the loop index at which the warning was logged.       *)
pair_warning(ts, default_s, i) ==
    IF min_duration(ts[i], ts[i + 1]) < default_s
    THEN << [pair |-> i,
             filename |-> warned_filename(ts[i], ts[i + 1]),
             duration |-> min_duration(ts[i], ts[i + 1]),
             crossfade |-> default_s,
             reduced |-> crossfade_s(ts[i], ts[i + 1], default_s)] >>
    ELSE << >>

RECURSIVE crossfade_loop_short(_, _, _, _)
(* variant: the loop runs over range(len(tracks) - 2) *)
crossfade_loop_short(ts, default_s, i, acc) ==
    IF i > Len(ts) - 2
    THEN acc
    ELSE crossfade_loop_short(ts, default_s, i + 1,
            [crossfades |-> Append(acc.crossfades,
                                   crossfade_s(ts[i], ts[i + 1], default_s)),
             warnings |-> acc.warnings \o pair_warning(ts, default_s, i)])

RECURSIVE crossfade_loop(_, _, _, _)
(* lines 37-56: the loop over range(len(tracks) - 1), from index i on *)
crossfade_loop(ts, default_s, i, acc) ==
    IF i > Len(ts) - 1
    THEN acc
    ELSE crossfade_loop(ts, default_s, i + 1,
            [crossfades |-> Append(acc.crossfades,
                                   crossfade_s(ts[i], ts[i + 1], default_s)),
             warnings |-> acc.warnings \o pair_warning(ts, default_s, i)])

calculate_crossfade_durations(ts, default_s) ==
    IF Len(ts) <= 1
    THEN [crossfades |-> << >>, warnings |-> << >>]
    ELSE crossfade_loop(ts, default_s, 1,
                        [crossfades |-> << >>, warnings |-> << >>])

----------------------------------------------------------------------------
(* ffmpeg/commands.py: build_merge_command *)

OutputPath == "merged_clean.wav"
Loudnorm == "loudnorm=I=-20:TP=-1.5:LRA=11"

(* a count of thousandths as decimal text with three decimals *)
Pad3(n) ==
    IF n < 10 THEN "00" \o ToString(n)
    ELSE IF n < 100 THEN "0" \o ToString(n)
    ELSE ToString(n)

ThousandthsText(v) == ToString(v \div 1000) \o "." \o Pad3(v % 1000)

(* a tick count as seconds in decimal text (the model keeps the trailing   *)
(* zeros that str(float) drops)                                            *)
SecondsText(t) == ThousandthsText((t * 1000) \div TicksPerSecond)

(* line 77: the acrossfade filter of duration d *)
Acrossfade(d) == "acrossfade=d=" \o SecondsText(d) \o ":c1=tri:c2=tri"

(* A filter-graph node: the labels it consumes, the filter with its        *)
(* arguments as text, the numeric argument the text was formatted from     *)
(* (<<v>>, or << >> when the text is fixed) and the label it produces.     *)
Node(ins, filter, value, out) ==
    [ins |-> ins, filter |-> filter, value |-> value, out |-> out]

RECURSIVE LabelText(_)
LabelText(ins) ==
    IF ins = << >> THEN "" ELSE "[" \o Head(ins) \o "]" \o LabelText(Tail(ins))

(* the text of one node, as the f-strings of the builders write it *)
NodeText(n) ==
    LabelText(n.ins) \o n.filter \o "[" \o n.out \o "]"

RECURSIVE Join(_)
(* ";".join(filter_parts) *)
Join(parts) ==
    IF parts = << >> THEN ""
    ELSE IF Len(parts) = 1 THEN NodeText(parts[1])
    ELSE NodeText(parts[1]) \o ";" \o Join(Tail(parts))

(* lines 61-64: one loudnorm node per input; input i is ffmpeg's [i-1:a] *)
normalize_parts(ts) ==
    [i \in 1..Len(ts) |->
        Node(<<ToString(i - 1) \o ":a">>, Loudnorm, << >>,
             "norm" \o ToString(i - 1))]

(* line 72: output_label = f"a{i + 1}" for the 0-based loop index i *)
output_label(i) == "a" \o ToString(i + 1)

(* line 70: next_input = f"norm{i + 1}" *)
next_input(i) == "norm" \o ToString(i + 1)

RECURSIVE crossfade_fold_stale(_, _, _, _)
(* variant: current_label is not advanced after a crossfade node *)
crossfade_fold_stale(ts, durations, i, acc) ==
    IF i > Len(ts) - 2
    THEN acc
    ELSE crossfade_fold_stale(ts, durations, i + 1,
            [filter_parts |->
                Append(acc.filter_parts,
                       Node(<<acc.current_label, next_input(i)>>,
                            Acrossfade(durations[i + 1]), <<durations[i + 1]>>,
                            output_label(i))),
             current_label |-> acc.current_label])

RECURSIVE crossfade_fold(_, _, _, _)
(* lines 67-80: the fold, from the 0-based index i on; acc holds           *)
(* filter_parts and current_label                                          *)
crossfade_fold(ts, durations, i, acc) ==
    IF i > Len(ts) - 2
    THEN acc
    ELSE crossfade_fold(ts, durations, i + 1,
            [filter_parts |->
                Append(acc.filter_parts,
                       Node(<<acc.current_label, next_input(i)>>,
                            Acrossfade(durations[i + 1]), <<durations[i + 1]>>,
                            output_label(i))),
             current_label |-> output_label(i)])

RECURSIVE input_args_reversed(_)
(* variant: the inputs are declared last track first *)
input_args_reversed(ts) ==
    IF ts = << >> THEN << >>
    ELSE input_args_reversed(Tail(ts)) \o <<"-i", Head(ts).filename>>

RECURSIVE input_args(_)
(* lines 49-50: "-i", path for every track, in list order *)
input_args(ts) ==
    IF ts = << >> THEN << >>
    ELSE <<"-i", Head(ts).filename>> \o input_args(Tail(ts))

FormatArgs == <<"-ar", "48000", "-ac", "2", "-sample_fmt", "s16", "-y">>

(* lines 32-43: the single-track command *)
single_track_command(ts) ==
    <<"ffmpeg", "-i", ts[1].filename, "-af", Loudnorm>>
        \o FormatArgs \o <<OutputPath>>

(* lines 45-97: the command for two or more tracks *)
merge_graph(ts, durations) ==
    crossfade_fold(ts, durations, 0,
                   [filter_parts |-> normalize_parts(ts),
                    current_label |-> "norm0"])

multi_track_command(ts, durations) ==
    <<"ffmpeg">> \o input_args(ts)
        \o <<"-filter_complex", Join(merge_graph(ts, durations).filter_parts)>>
        \o <<"-map", "[" \o merge_graph(ts, durations).current_label \o "]">>
        \o FormatArgs \o <<OutputPath>>

----------------------------------------------------------------------------
(* ffmpeg/commands.py: build_lofi_command *)

InputAudio == "merged_clean.wav"
OutputWav == "merged_lofi.wav"
OutputMp3 == "merged_lofi.mp3"
TexturePath == "texture.wav"
DrumsPath == "drums.wav"

Aloop == "aloop=loop=-1:size=2e+09"

(* lines 137-142: the texture loop node; the texture is input 1 *)
texture_parts(cfg) ==
    IF cfg.texture
    THEN << Node(<<"1:a">>, Aloop, << >>, "texture") >>
    ELSE << >>

(* lines 134, 142: input_idx when the drums are reached *)
drums_input_idx(cfg) == IF cfg.texture THEN 2 ELSE 1

(* lines 145-154: the drums loop node, delayed when drums_start_s > 0 *)
drums_parts(cfg) ==
    IF cfg.drums
    THEN IF cfg.drums_start_s > 0
         THEN << Node(<<ToString(drums_input_idx(cfg)) \o ":a">>,
                      Aloop \o ",adelay=" \o ToString(cfg.drums_start_s * 1000)
                            \o "|" \o ToString(cfg.drums_start_s * 1000),
                      <<cfg.drums_start_s * 1000>>, "drums") >>
         ELSE << Node(<<ToString(drums_input_idx(cfg)) \o ":a">>,
                      Aloop, << >>, "drums") >>
    ELSE << >>

(* lines 131, 141, 153: input_labels after the two optional inputs *)
input_labels(cfg) ==
    <<"0:a">> \o (IF cfg.texture THEN <<"texture">> ELSE << >>)
              \o (IF cfg.drums THEN <<"drums">> ELSE << >>)

(* lines 159-167: mix_inputs *)
mix_inputs(cfg) ==
    <<"0:a">> \o (IF cfg.texture THEN <<"texture_vol">> ELSE << >>)
              \o (IF cfg.drums THEN <<"drums_vol">> ELSE << >>)

(* lines 157-173: the gain nodes and the mix node, when there is an        *)
(* auxiliary input                                                         *)
mix_parts(cfg) ==
    IF Len(input_labels(cfg)) > 1
    THEN (IF cfg.texture
          THEN << Node(<<"texture">>, "volume=-26.0dB", << >>, "texture_vol") >>
          ELSE << >>)
         \o (IF cfg.drums
             THEN << Node(<<"drums">>, "volume=-22.0dB", << >>, "drums_vol") >>
             ELSE << >>)
         \o << Node(mix_inputs(cfg),
                    "amix=inputs=" \o ToString(Len(mix_inputs(cfg)))
                        \o ":normalize=0",
                    <<Len(mix_inputs(cfg))>>, "mixed") >>
    ELSE << >>

(* lines 171, 173: current_stream after the mix block *)
mixed_stream(cfg) == IF Len(input_labels(cfg)) > 1 THEN "mixed" ELSE "0:a"

(* the comparisons of the local float tempo = num / den, den > 0 *)
TempoBelowHalf(t) == 2 * t[1] < t[2]
TempoAboveTwo(t) == t[1] > 2 * t[2]
TempoIsOne(t) == t[1] = t[2]

(* line 190: f"{tempo:.3f}", the nearest count of thousandths, a tie       *)
(* going to the even one                                                   *)
format_3f(t) ==
    LET q == (t[1] * 1000) \div t[2]
        r == (t[1] * 1000) % t[2]
    IN  IF 2 * r > t[2] THEN q + 1
        ELSE IF 2 * r = t[2] THEN q + (q % 2)
        ELSE q

(* lines 182, 186: a boundary-ratio node, ratio in thousandths *)
boundary_node(stream, ratio) ==
    Node(<<stream>>,
         "atempo=" \o (IF ratio = 500 THEN "0.5" ELSE "2.0"),
         <<ratio>>, "tempo_intermediate")

(* line 190: the residual node *)
residual_node(stream, t) ==
    Node(<<stream>>, "atempo=" \o ThousandthsText(format_3f(t)),
         <<format_3f(t)>>, "tempo")

(* variant: the high-pass reads the mix label whatever came before it *)
eq_parts_from_mixed(stream) ==
    << Node(<<"mixed">>, "highpass=f=35", << >>, "hp"),
       Node(<<"hp">>, "lowpass=f=9500", << >>, "lp") >>

(* lines 194-197: the high-pass and low-pass pair *)
eq_parts(stream) ==
    << Node(<<stream>>, "highpass=f=35", << >>, "hp"),
       Node(<<"hp">>, "lowpass=f=9500", << >>, "lp") >>

(* lines 200-207 *)
reverb_parts(cfg, stream) ==
    IF cfg.enable_reverb
    THEN << Node(<<stream>>,
                 "aecho=in_gain=0.8:out_gain=0.88:delays=60|120:decays=0.3|0.25",
                 << >>, "reverb") >>
    ELSE << >>

(* lines 210-217 *)
saturation_parts(cfg, stream) ==
    IF cfg.enable_saturation
    THEN << Node(<<stream>>,
                 "asubboost=dry=0.5:wet=0.5:boost=3:decay=0.6:feedback=0.6:cutoff=150",
                 << >>, "sat") >>
    ELSE << >>

(* lines 220-229 *)
compression_parts(cfg, stream) ==
    IF cfg.enable_compression
    THEN << Node(<<stream>>,
                 "acompressor=ratio=2.0:threshold=-23.0dB:attack=25.0:release=200.0",
                 << >>, "comp") >>
    ELSE << >>

(* line 232 *)
limiter_parts(stream) ==
    << Node(<<stream>>, "alimiter=limit=-1dB:attack=5:release=50", << >>, "out") >>

(* the label a block leaves in current_stream: its last node's, or the     *)
(* one it was given when the block is disabled                             *)
StreamAfter(parts, stream) ==
    IF parts = << >> THEN stream ELSE parts[Len(parts)].out

(* variant: the saturation block is appended before the reverb block *)
tail_parts_saturation_first(cfg, stream) ==
    LET eq == eq_parts(stream)
        sa == saturation_parts(cfg, "lp")
        s1 == StreamAfter(sa, "lp")
        rv == reverb_parts(cfg, s1)
        s2 == StreamAfter(rv, s1)
        co == compression_parts(cfg, s2)
        s3 == StreamAfter(co, s2)
    IN  eq \o sa \o rv \o co \o limiter_parts(s3)

(* lines 193-232: the chain from the EQ to the limiter, fed by stream *)
tail_parts(cfg, stream) ==
    LET eq == eq_parts(stream)
        rv == reverb_parts(cfg, "lp")
        s1 == StreamAfter(rv, "lp")
        sa == saturation_parts(cfg, s1)
        s2 == StreamAfter(sa, s1)
        co == compression_parts(cfg, s2)
        s3 == StreamAfter(co, s2)
    IN  eq \o rv \o sa \o co \o limiter_parts(s3)

(* lines 237-253 *)
wav_cmd(cfg, parts) ==
    <<"ffmpeg", "-i", InputAudio>>
        \o (IF cfg.texture THEN <<"-i", TexturePath>> ELSE << >>)
        \o (IF cfg.drums THEN <<"-i", DrumsPath>> ELSE << >>)
        \o <<"-filter_complex", Join(parts), "-map", "[out]">>
        \o FormatArgs \o <<OutputWav>>

(* lines 256-263 *)
mp3_command ==
    <<"ffmpeg", "-i", OutputWav, "-codec:a", "libmp3lame", "-b:a", "320k",
      "-y", OutputMp3>>

----------------------------------------------------------------------------
(* Text.  A string is read through Chars, the list of its characters; the  *)
(* table covers the names and words the model feeds the program.           *)

Filenames == <<"a.mp3", "b.mp3", "c.mp3">>

CommentWord == "#"
PathWord == "sub/a.mp3"

Chars(text) ==
    CASE text = "a.mp3" -> <<"a", ".", "m", "p", "3">>
      [] text = "b.mp3" -> <<"b", ".", "m", "p", "3">>
      [] text = "c.mp3" -> <<"c", ".", "m", "p", "3">>
      [] text = "#" -> <<"#">>
      [] text = "sub/a.mp3" -> <<"s", "u", "b", "/", "a", ".", "m", "p", "3">>
      [] text = "t1" -> <<"t", "1">>
      [] text = "t2" -> <<"t", "2">>
      [] text = "t10" -> <<"t", "1", "0">>
      [] text = "T2" -> <<"T", "2">>
      [] text = "t01" -> <<"t", "0", "1">>
      [] text = "<U+00B2>1" -> <<"U+00B2", "1">>

(* the characters in code-point order *)
CharOrder ==
    <<"#", ".", "/", "0", "1", "2", "3", "4", "5", "6", "7", "8", "9",
      "A", "B", "C", "T", "\\", "a", "b", "c", "k", "m", "p", "r", "s", "t", "u",
      "U+00B2">>

CharCode(c) == CHOOSE i \in DOMAIN CharOrder : CharOrder[i] = c

Digits == <<"0", "1", "2", "3", "4", "5", "6", "7", "8", "9">>

IsDigit(c) == \E i \in DOMAIN Digits : Digits[i] = c

DigitValue(c) == (CHOOSE i \in DOMAIN Digits : Digits[i] = c) - 1

UpperCase == <<"A", "B", "C", "T">>
LowerCase == <<"a", "b", "c", "t">>

(* str.lower() on one character *)
Lower(c) ==
    IF \E i \in DOMAIN UpperCase : UpperCase[i] = c
    THEN LowerCase[CHOOSE i \in DOMAIN UpperCase : UpperCase[i] = c]
    ELSE c

RECURSIVE CharsLess(_, _)
(* str < str: by code point, a proper prefix first *)
CharsLess(x, y) ==
    IF y = << >> THEN FALSE
    ELSE IF x = << >> THEN TRUE
    ELSE IF Head(x) = Head(y) THEN CharsLess(Tail(x), Tail(y))
    ELSE CharCode(Head(x)) < CharCode(Head(y))

StrLess(a, b) == CharsLess(Chars(a), Chars(b))

RECURSIVE SortedNames(_)
(* sorted(set of str) *)
SortedNames(S) ==
    IF S = {} THEN << >>
    ELSE LET least == CHOOSE x \in S : \A y \in S \ {x} : StrLess(x, y)
         IN  <<least>> \o SortedNames(S \ {least})

RECURSIVE JoinNames(_)
(* ", ".join(names) *)
JoinNames(names) ==
    IF names = << >> THEN ""
    ELSE IF Len(names) = 1 THEN names[1]
    ELSE names[1] \o ", " \o JoinNames(Tail(names))

----------------------------------------------------------------------------
(* utils/natural_sort.py *)

RECURSIVE split_digits(_, _, _)
(* line 27: re.split(r'(\d+)', text), scanning rest with the fragment cur  *)
(* open; the fragments alternate non-digit, digit, ..., non-digit          *)
split_digits(rest, frags, cur) ==
    IF rest = << >>
    THEN IF cur.digit
         THEN frags \o <<cur, [digit |-> FALSE, chars |-> << >>]>>
         ELSE Append(frags, cur)
    ELSE IF IsDigit(Head(rest)) = cur.digit
         THEN split_digits(Tail(rest), frags,
                           [cur EXCEPT !.chars = Append(@, Head(rest))])
         ELSE split_digits(Tail(rest), Append(frags, cur),
                           [digit |-> ~cur.digit, chars |-> <<Head(rest)>>])

RECURSIVE IntValue(_, _)
(* int(fragment) of a run of digits *)
IntValue(chars, acc) ==
    IF chars = << >> THEN acc
    ELSE IntValue(Tail(chars), 10 * acc + DigitValue(Head(chars)))

(* lines 23-25: convert(fragment): int(fragment) if fragment.isdigit(),     *)
(* which raises ValueError on a character that is no decimal digit, else   *)
(* fragment.lower()                                                        *)
convert(fragment) ==
    IF fragment.chars # << >>
           /\ \A i \in DOMAIN fragment.chars : 
                  IsDigit(fragment.chars[i]) \/ fragment.chars[i] = "U+00B2"
    THEN IF \A i \in DOMAIN fragment.chars : IsDigit(fragment.chars[i])
         THEN [isint |-> TRUE, n |-> IntValue(fragment.chars, 0), s |-> << >>,
               raises |-> "none"]
         ELSE [isint |-> TRUE, n |-> 0, s |-> << >>, raises |-> "ValueError"]
    ELSE [isint |-> FALSE, n |-> 0,
          s |-> [i \in DOMAIN fragment.chars |-> Lower(fragment.chars[i])],
          raises |-> "none"]

(* lines 7-27 *)
natural_sort_key(text) ==
    LET frags == split_digits(Chars(text), << >>,
                              [digit |-> FALSE, chars |-> << >>])
    IN  [i \in DOMAIN frags |-> convert(frags[i])]

RECURSIVE KeyCompare(_, _)
(* list < list on two keys: "lt", "eq", "gt", or "TypeError" when an int    *)
(* meets a str                                                              *)
KeyCompare(k1, k2) ==
    IF k1 = << >> /\ k2 = << >> THEN "eq"
    ELSE IF k1 = << >> THEN "lt"
    ELSE IF k2 = << >> THEN "gt"
    ELSE IF Head(k1) = Head(k2) THEN KeyCompare(Tail(k1), Tail(k2))
    ELSE IF Head(k1).isint # Head(k2).isint THEN "TypeError"
    ELSE IF Head(k1).isint
         THEN (IF Head(k1).n < Head(k2).n THEN "lt" ELSE "gt")
         ELSE (IF CharsLess(Head(k1).s, Head(k2).s) THEN "lt" ELSE "gt")

RECURSIVE insert_sorted(_, _)
(* the place of x in the sorted list acc: after every item not greater,    *)
(* as the stable sort of sorted() leaves it                                *)
insert_sorted(acc, x) ==
    IF acc = << >> THEN <<x>>
    ELSE IF KeyCompare(natural_sort_key(x), natural_sort_key(Head(acc))) = "lt"
         THEN <<x>> \o acc
         ELSE <<Head(acc)>> \o insert_sorted(Tail(acc), x)

RECURSIVE sort_from(_, _)
sort_from(items, acc) ==
    IF items = << >> THEN acc
    ELSE sort_from(Tail(items), insert_sorted(acc, Head(items)))

(* lines 30-43: sorted(items, key=natural_sort_key) *)
natural_sort(items) == sort_from(items, << >>)

(* the exception sorted(items, key=natural_sort_key) ends with: the one a  *)
(* key raises, or the TypeError of a comparison of an int with a str       *)
sort_error(items) ==
    IF \E i \in DOMAIN items :
           \E k \in DOMAIN natural_sort_key(items[i]) :
               natural_sort_key(items[i])[k].raises # "none"
    THEN "ValueError"
    ELSE IF \E i, j \in DOMAIN items :
                KeyCompare(natural_sort_key(items[i]),
                           natural_sort_key(items[j])) = "TypeError"
    THEN "TypeError"
    ELSE "none"

----------------------------------------------------------------------------
(* stages/ingest.py *)

Range(f) == { f[i] : i \in DOMAIN f }

(* str(e): the text of an exception and the filenames the text lists *)
Message(text, names) == [text |-> text, names |-> names]

NoMessage == Message("", {})

(* line 85: line.startswith("#"), on a stripped line that is not empty *)
StartsWithHash(line) == Chars(line[1])[1] = "#"

(* line 92: "/" in filename or "\\" in filename *)
HasSeparator(filename) ==
    \E i \in DOMAIN Chars(filename) : Chars(filename)[i] \in {"/", "\\"}

RECURSIVE parse_lines(_, _, _)
(* lines 80-98: the loop over the lines, line_num counting from 1; a line  *)
(* is the list of its words, line.split()                                  *)
parse_lines(lines, line_num, ordered_tracks) ==
    IF lines = << >>
    THEN [ordered_tracks |-> ordered_tracks, error |-> << >>]
    ELSE IF Head(lines) = << >> \/ StartsWithHash(Head(lines))
    THEN parse_lines(Tail(lines), line_num + 1, ordered_tracks)
    ELSE IF HasSeparator(Head(lines)[1])
    THEN [ordered_tracks |-> ordered_tracks,
          error |-> << Message("order.txt line " \o ToString(line_num)
                                   \o ": Paths not allowed, only filenames (got: "
                                   \o Head(lines)[1] \o ")",
                               {Head(lines)[1]}) >>]
    ELSE parse_lines(Tail(lines), line_num + 1,
                     Append(ordered_tracks, Head(lines)[1]))

(* lines 57-100 *)
parse_order_file(lines) == parse_lines(lines, 1, << >>)

(* line 145: the names f with ordered_filenames.count(f) > 1 *)
duplicates(names) ==
    { names[i] : i \in { j \in DOMAIN names :
                            \E k \in DOMAIN names : k # j /\ names[k] = names[j] } }

(* variant: a manifest that lists every discovered file passes, whatever   *)
(* else it lists                                                           *)
validate_ordering_extras_pass(names, available_files) ==
    LET unique_ordered == Range(names)
        missing_from_order == available_files \ unique_ordered
    IN  IF missing_from_order # {}
        THEN [error |-> << Message(
                  "order.txt is missing files from input directory: "
                      \o JoinNames(SortedNames(missing_from_order)),
                  missing_from_order) >>,
              notice |-> << >>]
        ELSE [error |-> << >>, notice |-> << >>]

(* lines 103-150: the error raised, if any, and the notice logged, if any *)
validate_ordering(names, available_files) ==
    LET unique_ordered == Range(names)
        extra_in_order == unique_ordered \ available_files
        missing_from_order == available_files \ unique_ordered
    IN  IF extra_in_order # {}
        THEN [error |-> << Message(
                  "order.txt lists files not found in input directory: "
                      \o JoinNames(SortedNames(extra_in_order)),
                  extra_in_order) >>,
              notice |-> << >>]
        ELSE IF missing_from_order # {}
        THEN [error |-> << Message(
                  "order.txt is missing files from input directory: "
                      \o JoinNames(SortedNames(missing_from_order)),
                  missing_from_order) >>,
              notice |-> << >>]
        ELSE IF Len(names) # Cardinality(unique_ordered)
        THEN [error |-> << >>,
              notice |-> << [level |-> "info", kind |-> "duplicates",
                             text |-> "order.txt contains duplicates (will be processed multiple times): "
                                          \o JoinNames(SortedNames(duplicates(names))),
                             names |-> duplicates(names)] >>]
        ELSE [error |-> << >>, notice |-> << >>]

(* lines 175-179: the order.txt branch of determine_track_order *)
order_from_file(lines, available_filenames) ==
    LET parsed == parse_order_file(lines)
        checked == validate_ordering(parsed.ordered_tracks, available_filenames)
    IN  IF parsed.error # << >>
        THEN [ordered_filenames |-> << >>, error |-> parsed.error, notice |-> << >>]
        ELSE IF checked.error # << >>
        THEN [ordered_filenames |-> << >>, error |-> checked.error, notice |-> << >>]
        ELSE [ordered_filenames |-> parsed.ordered_tracks, error |-> << >>,
              notice |-> checked.notice]

(* the lists a set can be iterated as *)
ListsOf(S) ==
    { l \in [1..Cardinality(S) -> S] : Range(l) = S }

(* variant: the k positions are drawn independently and may repeat *)
Samples_with_replacement(population, k) ==
    { [i \in 1..k |-> population[pos[i]]] : pos \in [1..k -> DOMAIN population] }

(* line 247: random.sample(population, k), k elements from distinct        *)
(* positions, in any order                                                 *)
Samples(population, k) ==
    { [i \in 1..k |-> population[pos[i]]] :
        pos \in { q \in [1..k -> DOMAIN population] :
                     \A i, j \in 1..k : i # j => q[i] # q[j] } }

(* the metadata ffprobe reports for a file: its duration, in ticks *)
ProbeDuration(filename) ==
    2 * TicksPerSecond * (CHOOSE i \in DOMAIN Filenames : Filenames[i] = filename)

(* lines 197-204 *)
AudioTrack(filename) ==
    [filename |-> filename, duration_s |-> ProbeDuration(filename)]

ProbeRecords == SelectSeq(log, LAMBDA r : r.kind \in {"probed", "skipped"})

----------------------------------------------------------------------------
(* utils/youtube.py *)

RECURSIVE JoinChars(_)
(* the text with these characters *)
JoinChars(chars) ==
    IF chars = << >> THEN "" ELSE Head(chars) \o JoinChars(Tail(chars))

(* line 29: Path(name).stem, the name without its last suffix; a name      *)
(* that starts or ends with its last "." has no suffix                     *)
stem(chars) ==
    LET dots == { i \in DOMAIN chars : chars[i] = "." }
        last == CHOOSE i \in dots : \A j \in dots : j <= i
    IN  IF dots # {} /\ last > 1 /\ last < Len(chars)
        THEN SubSeq(chars, 1, last - 1)
        ELSE chars

RECURSIVE strip_suffixes(_)
(* lines 27-32: the loop that takes the stem until nothing changes *)
strip_suffixes(chars) ==
    IF stem(chars) = chars THEN chars ELSE strip_suffixes(stem(chars))

(* lines 9-37: clean_track_name *)
clean_track_name(filename) ==
    LET name == strip_suffixes(Chars(filename))
    IN  JoinChars([i \in DOMAIN name |-> IF name[i] = "_" THEN " " ELSE name[i]])

RECURSIVE stamps_from(_, _, _, _, _)
(* lines 89-98: the loop of generate_youtube_timestamps at index i *)
stamps_from(track_list, crossfade_duration_s, i, current_time, acc) ==
    IF i > Len(track_list) THEN acc
    ELSE stamps_from(
             track_list, crossfade_duration_s, i + 1,
             IF i < Len(track_list)
             THEN current_time + track_list[i].duration_s - crossfade_duration_s
             ELSE current_time,
             Append(acc, [offset |-> current_time,
                          name |-> clean_track_name(track_list[i].filename)]))

(* variant: the overlap is not subtracted *)
generate_youtube_timestamps_no_overlap(track_list, crossfade_duration_s) ==
    stamps_from(track_list, 0, 1, 0, << >>)

(* lines 68-100 *)
generate_youtube_timestamps(track_list, crossfade_duration_s) ==
    stamps_from(track_list, crossfade_duration_s, 1, 0, << >>)

(* lines 148-156: the pairs write_youtube_description formats and writes *)
write_youtube_description(track_list, crossfade_duration_s, actual) ==
    IF actual # << >> /\ Len(actual) = Len(track_list)
    THEN [i \in DOMAIN track_list |->
             [offset |-> actual[i],
              name |-> clean_track_name(track_list[i].filename)]]
    ELSE generate_youtube_timestamps(track_list, crossfade_duration_s)

----------------------------------------------------------------------------
(* pipeline.py: the except clauses of Pipeline.run *)

(* lines 161-185: the status returned for an exception raised in the try *)
exit_status(exception) ==
    CASE exception = "ValidationError" -> 1
      [] exception = "ProcessingError" -> 2
      [] exception = "OutputError" -> 3
      [] OTHER -> 2

(* lines 163, 169, 175, 181: the text add_error is given *)
error_text(exception, message) ==
    IF exception \in {"ValidationError", "ProcessingError", "OutputError"}
    THEN message.text
    ELSE "Unexpected error: " \o message.text

----------------------------------------------------------------------------
(* logging/manifest.py: ManifestBuilder *)

(* lines 24-37: the data of a new ManifestBuilder, the categories the run  *)
(* fills                                                                   *)
EmptyManifest ==
    [audio_files |-> << >>, order_source |-> "", stages |-> << >>,
     outputs |-> << >>, errors |-> << >>]

(* line 143: round(duration_s, 2) of a measured time, in hundredths of a   *)
(* second; a stage can take less than half a hundredth                     *)
Elapsed == {0, 150}

(* variant: the entry replaces the entries before it *)
add_stage_result_latest(data, name, status, duration_s, extras) ==
    [data EXCEPT !.stages =
        <<[name |-> name, status |-> status, duration_s |-> duration_s,
           extras |-> extras]>>]

(* lines 125-146: add_stage_result; extras are the keyword arguments, as   *)
(* pairs of key and value                                                  *)
add_stage_result(data, name, status, duration_s, extras) ==
    [data EXCEPT !.stages =
        Append(@, [name |-> name, status |-> status, duration_s |-> duration_s,
                   extras |-> extras])]

(* lines 92-123: add_output, for a path that exists *)
add_output(data, name) == [data EXCEPT !.outputs = Append(@, name)]

(* lines 164-170: add_error *)
add_error(data, message) == [data EXCEPT !.errors = Append(@, message)]

(* the variables of Pipeline.run while a stage function runs on its own *)
RunIdle ==
    /\ package = ""
    /\ skip_lofi = FALSE
    /\ image = FALSE
    /\ num_tracks = 0
    /\ audio_files = {}
    /\ order_file_exists = FALSE
    /\ order_lines = << >>
    /\ ordered_filenames = << >>
    /\ log = << >>
    /\ error_message = NoMessage
    /\ manifest = EmptyManifest
    /\ manifest_file = << >>
    /\ write_calls = 0
    /\ calls = << >>
    /\ requests = << >>
    /\ artifacts = {}
    /\ final_audio = ""

(* the variables of natural_sort while it is not the function applied *)
SortIdle ==
    /\ item_list = << >>
    /\ reordered = << >>
    /\ sorted_items = << >>
    /\ sorted_reordered = << >>

(* the variables of write_youtube_description before it is called *)
StampsIdle ==
    /\ actual_timestamps = << >>
    /\ timestamps = << >>

----------------------------------------------------------------------------
(* The merge stage, called inside the try block of Pipeline.run *)

NoConfig ==
    [texture |-> FALSE, drums |-> FALSE, drums_start_s |-> 0,
     tempo_factor |-> TempoUnit, enable_reverb |-> FALSE,
     enable_saturation |-> FALSE, enable_compression |-> FALSE]

InitMerge ==
    /\ pc = "merge_stage"
    /\ tracks \in UNION { TrackLists(n) : n \in 0..MaxTracks }
    /\ default_crossfade_s \in Defaults
    /\ crossfades = << >>
    /\ warnings = << >>
    /\ filter_parts = << >>
    /\ current_label = ""
    /\ cmd = << >>
    /\ config = NoConfig
    /\ current_stream = ""
    /\ tempo = <<1, 1>>
    /\ mp3_cmd = << >>
    /\ raised = "none"
    /\ exit_code = -1
    /\ RunIdle
    /\ SortIdle
    /\ StampsIdle

(* merge.py lines 86-91 *)
CalculateCrossfades ==
    /\ pc = "merge_stage"
    /\ crossfades' =
           calculate_crossfade_durations(tracks, default_crossfade_s).crossfades
    /\ warnings' =
           calculate_crossfade_durations(tracks, default_crossfade_s).warnings
    /\ pc' = "build_merge_command"
    /\ calls' = Append(calls, "merge")
    /\ UNCHANGED <<tracks, default_crossfade_s, filter_parts, current_label,
                   cmd, raised, exit_code>>
    /\ UNCHANGED <<lofiVars, otherVars, ingestVars, error_message, ledgerVars,
                   requests, artifacts, final_audio>>

(* commands.py lines 29-30 *)
BuildMergeZero ==
    /\ pc = "build_merge_command"
    /\ Len(tracks) = 0
    /\ raised' = "ValueError"
    /\ error_message' = Message("Cannot merge zero tracks", {})
    /\ pc' = "except"
    /\ UNCHANGED <<filter_parts, cmd, exit_code>>
    /\ UNCHANGED <<mergeVars, lofiVars, otherVars, ingestVars, ledgerVars,
                   traceVars, final_audio>>

(* commands.py lines 32-43 *)
BuildMergeSingle ==
    /\ pc = "build_merge_command"
    /\ Len(tracks) = 1
    /\ cmd' = single_track_command(tracks)
    /\ pc' = "run_ffmpeg"
    /\ UNCHANGED <<filter_parts, raised, exit_code>>
    /\ UNCHANGED <<mergeVars, lofiVars, runVars>>

(* commands.py lines 45-97 *)
BuildMergeMulti ==
    /\ pc = "build_merge_command"
    /\ Len(tracks) > 1
    /\ filter_parts' = merge_graph(tracks, crossfades).filter_parts
    /\ current_label' = merge_graph(tracks, crossfades).current_label
    /\ cmd' = multi_track_command(tracks, crossfades)
    /\ pc' = "run_ffmpeg"
    /\ UNCHANGED <<tracks, default_crossfade_s, crossfades, warnings,
                   raised, exit_code>>
    /\ UNCHANGED <<lofiVars, runVars>>

(* merge.py lines 106-121: the engine succeeds and the output exists, or   *)
(* run_ffmpeg or the output check raises ProcessingError, or the blocking  *)
(* call is interrupted                                                     *)
RunMerge ==
    /\ pc = "run_ffmpeg"
    /\ requests' = Append(requests, cmd)
    /\ \/ /\ pc' = "merged"
          /\ artifacts' = artifacts \cup {OutputPath}
          /\ UNCHANGED <<raised, error_message>>
       \/ /\ pc' = "except"
          /\ raised' = "ProcessingError"
          /\ error_message' \in
                 { Message("FFmpeg failed: Merging tracks with crossfades", {}),
                   Message("merge: Output file not created", {}) }
          /\ UNCHANGED artifacts
       \/ /\ pc' = "except"
          /\ raised' = "KeyboardInterrupt"
          /\ UNCHANGED <<artifacts, error_message>>
    /\ UNCHANGED <<filter_parts, cmd, exit_code>>
    /\ UNCHANGED <<mergeVars, lofiVars, otherVars, ingestVars, ledgerVars,
                   calls, final_audio>>

(* variant: the except clauses return without _write_manifest_on_error *)
RunExcept_without_write ==
    /\ pc = "except"
    /\ raised # "KeyboardInterrupt"
    /\ manifest' = add_error(manifest, error_text(raised, error_message))
    /\ exit_code' = exit_status(raised)
    /\ pc' = "returned"
    /\ UNCHANGED <<filter_parts, cmd, raised, manifest_file, write_calls>>
    /\ UNCHANGED <<mergeVars, lofiVars, otherVars, ingestVars, error_message,
                   traceVars, final_audio>>

(* pipeline.py lines 161-194: the except clause that matches records the   *)
(* error, _write_manifest_on_error writes the ledger or swallows the       *)
(* failure of the write, and run returns the clause's status               *)
RunExcept ==
    /\ pc = "except"
    /\ raised # "KeyboardInterrupt"
    /\ manifest' = add_error(manifest, error_text(raised, error_message))
    /\ write_calls' = write_calls + 1
    /\ \/ manifest_file' = <<manifest'>>
       \/ manifest_file' = manifest_file
    /\ exit_code' = exit_status(raised)
    /\ pc' = "returned"
    /\ UNCHANGED <<filter_parts, cmd, raised>>
    /\ UNCHANGED <<mergeVars, lofiVars, otherVars, ingestVars, error_message,
                   traceVars, final_audio>>

(* cli.py lines 274-276: an interrupt is no Exception; it leaves run        *)
(* through no except clause and main returns 1                             *)
MainInterrupt ==
    /\ pc = "except"
    /\ raised = "KeyboardInterrupt"
    /\ exit_code' = 1
    /\ pc' = "returned"
    /\ UNCHANGED <<filter_parts, cmd, raised>>
    /\ UNCHANGED <<mergeVars, lofiVars, runVars>>

NextMerge ==
    \/ CalculateCrossfades
    \/ BuildMergeZero
    \/ BuildMergeSingle
    \/ BuildMergeMulti
    \/ RunMerge
    \/ RunExcept
    \/ MainInterrupt

----------------------------------------------------------------------------
(* build_lofi_command, one step per block of the function and per          *)
(* iteration of its tempo loops                                            *)

TempoFactors == (0 - 1)..MaxTempo

Configs ==
    { c \in [texture : BOOLEAN, drums : BOOLEAN,
             drums_start_s : 0..MaxDrumsStart,
             tempo_factor : TempoFactors, enable_reverb : BOOLEAN,
             enable_saturation : BOOLEAN, enable_compression : BOOLEAN] :
        c.drums \/ c.drums_start_s = 0 }

InitLofi ==
    /\ pc = "build_lofi_command"
    /\ config \in Configs
    /\ filter_parts = << >>
    /\ current_stream = ""
    /\ tempo = <<1, 1>>
    /\ cmd = << >>
    /\ mp3_cmd = << >>
    /\ tracks = << >>
    /\ default_crossfade_s = 0
    /\ crossfades = << >>
    /\ warnings = << >>
    /\ current_label = ""
    /\ raised = "none"
    /\ exit_code = -1
    /\ RunIdle
    /\ SortIdle
    /\ StampsIdle

(* lines 130-173 *)
LofiInputsAndMix ==
    /\ pc = "build_lofi_command"
    /\ filter_parts' =
           texture_parts(config) \o drums_parts(config) \o mix_parts(config)
    /\ current_stream' = mixed_stream(config)
    /\ pc' = "tempo"
    /\ UNCHANGED <<config, tempo, mp3_cmd, cmd, raised, exit_code>>
    /\ UNCHANGED <<mergeVars, runVars>>

(* lines 178-179 *)
TempoBegin ==
    /\ pc = "tempo"
    /\ IF config.tempo_factor # TempoUnit
       THEN /\ tempo' = <<config.tempo_factor, TempoUnit>>
            /\ pc' = "while_below"
       ELSE /\ tempo' = tempo
            /\ pc' = "eq"
    /\ UNCHANGED <<config, current_stream, mp3_cmd, filter_parts, cmd,
                   raised, exit_code>>
    /\ UNCHANGED <<mergeVars, runVars>>

TempoNodes == { k \in DOMAIN filter_parts : filter_parts[k].out = "tempo_intermediate" }

(* lines 181-184: one iteration of the first loop *)
TempoBelowStep ==
    /\ pc = "while_below"
    /\ TempoBelowHalf(tempo)
    /\ Cardinality(TempoNodes) < MaxTempoNodes
    /\ filter_parts' = Append(filter_parts, boundary_node(current_stream, 500))
    /\ current_stream' = "tempo_intermediate"
    /\ tempo' = <<2 * tempo[1], tempo[2]>>
    /\ UNCHANGED <<pc, config, mp3_cmd, cmd, raised, exit_code>>
    /\ UNCHANGED <<mergeVars, runVars>>

(* line 181 false: on to the second loop *)
TempoBelowExit ==
    /\ pc = "while_below"
    /\ ~TempoBelowHalf(tempo)
    /\ pc' = "while_above"
    /\ UNCHANGED <<filter_parts, cmd, raised, exit_code>>
    /\ UNCHANGED <<mergeVars, lofiVars, runVars>>

(* lines 185-188: one iteration of the second loop *)
TempoAboveStep ==
    /\ pc = "while_above"
    /\ TempoAboveTwo(tempo)
    /\ filter_parts' = Append(filter_parts, boundary_node(current_stream, 2000))
    /\ current_stream' = "tempo_intermediate"
    /\ tempo' = <<tempo[1], 2 * tempo[2]>>
    /\ UNCHANGED <<pc, config, mp3_cmd, cmd, raised, exit_code>>
    /\ UNCHANGED <<mergeVars, runVars>>

(* lines 185, 189-191: the second loop ends; the residual node *)
TempoResidual ==
    /\ pc = "while_above"
    /\ ~TempoAboveTwo(tempo)
    /\ IF ~TempoIsOne(tempo)
       THEN /\ filter_parts' =
                   Append(filter_parts, residual_node(current_stream, tempo))
            /\ current_stream' = "tempo"
       ELSE UNCHANGED <<filter_parts, current_stream>>
    /\ pc' = "eq"
    /\ UNCHANGED <<config, tempo, mp3_cmd, cmd, raised, exit_code>>
    /\ UNCHANGED <<mergeVars, runVars>>

(* lines 193-265 *)
LofiChainAndCommands ==
    /\ pc = "eq"
    /\ filter_parts' = filter_parts \o tail_parts(config, current_stream)
    /\ current_stream' = "out"
    /\ cmd' = wav_cmd(config, filter_parts')
    /\ mp3_cmd' = mp3_command
    /\ pc' = "lofi_built"
    /\ UNCHANGED <<config, tempo, raised, exit_code>>
    /\ UNCHANGED <<mergeVars, runVars>>

NextLofi ==
    \/ LofiInputsAndMix
    \/ TempoBegin
    \/ TempoBelowStep
    \/ TempoBelowExit
    \/ TempoAboveStep
    \/ TempoResidual
    \/ LofiChainAndCommands

----------------------------------------------------------------------------
(* Pipeline.run: the ingest stage *)

MaxManifestLines == 3
MaxNumTracks == 2

(* the lines order.txt can hold: a filename, a blank line, a comment, an   *)
(* entry with a directory in it, a filename followed by a second word      *)
(* with a directory in it                                                  *)
LineUniverse ==
    { <<Filenames[i]>> : i \in DOMAIN Filenames }
        \cup { << >>, <<CommentWord>>, <<PathWord>>, <<Filenames[1], PathWord>> }

OrderFiles == UNION { [1..n -> LineUniverse] : n \in 0..MaxManifestLines }

Directories == SUBSET Range(Filenames)

(* config.py: fade_ms defaults to 3000 in soundweave, to 15000 in maple_lofi *)
DefaultFade(pkg) ==
    IF pkg = "soundweave" THEN 3 * TicksPerSecond ELSE 15 * TicksPerSecond

(* config.py lines 22-40 of maple_lofi: the aesthetic options' defaults *)
DefaultLofiConfig ==
    [texture |-> FALSE, drums |-> FALSE, drums_start_s |-> 0,
     tempo_factor |-> (3 * TempoUnit) \div 4, enable_reverb |-> TRUE,
     enable_saturation |-> FALSE, enable_compression |-> FALSE]

(* Pipeline.__init__ and the state run starts from.  The first family      *)
(* runs soundweave over every directory and every order.txt; the second    *)
(* runs both pipelines, with and without their optional stages, over       *)
(* every directory without an order.txt.                                   *)
InitRun ==
    /\ pc = "ingest_stage"
    /\ \/ /\ package = "soundweave"
          /\ skip_lofi = FALSE
          /\ image = FALSE
          /\ num_tracks \in 0..MaxNumTracks
          /\ order_file_exists = TRUE
          /\ order_lines \in OrderFiles
       \/ /\ package \in {"maple_lofi", "soundweave"}
          /\ skip_lofi \in (IF package = "maple_lofi" THEN BOOLEAN ELSE {FALSE})
          /\ image \in BOOLEAN
          /\ num_tracks = 0
          /\ order_file_exists = FALSE
          /\ order_lines = << >>
    /\ audio_files \in Directories
    /\ ordered_filenames = << >>
    /\ log = << >>
    /\ error_message = NoMessage
    /\ manifest = EmptyManifest
    /\ manifest_file = << >>
    /\ write_calls = 0
    /\ calls = << >>
    /\ requests = << >>
    /\ artifacts = {}
    /\ final_audio = ""
    /\ tracks = << >>
    /\ default_crossfade_s = DefaultFade(package)
    /\ crossfades = << >>
    /\ warnings = << >>
    /\ filter_parts = << >>
    /\ current_label = ""
    /\ cmd = << >>
    /\ config = NoConfig
    /\ current_stream = ""
    /\ tempo = <<1, 1>>
    /\ mp3_cmd = << >>
    /\ raised = "none"
    /\ exit_code = -1
    /\ SortIdle
    /\ StampsIdle

(* the variables no step of ingest_stage touches *)
ingestFrame ==
    <<filter_parts, cmd, exit_code, default_crossfade_s, crossfades, warnings,
      current_label, lofiVars, otherVars, order_file_exists, ledgerVars,
      requests, artifacts, final_audio>>

(* pipeline.py line 52; ingest.py lines 233-238, 41-54 *)
DiscoverAudioFiles ==
    /\ pc = "ingest_stage"
    /\ calls' = Append(calls, "ingest")
    /\ IF audio_files = {}
       THEN /\ raised' = "ValidationError"
            /\ error_message' = Message("No audio files found in input_dir", {})
            /\ pc' = "except"
       ELSE /\ pc' = "determine_track_order"
            /\ UNCHANGED <<raised, error_message>>
    /\ UNCHANGED <<tracks, audio_files, order_lines, ordered_filenames, log>>
    /\ UNCHANGED ingestFrame

(* ingest.py lines 241-242, 172-182 *)
DetermineTrackOrder ==
    /\ pc = "determine_track_order"
    /\ IF order_file_exists
       THEN LET result == order_from_file(order_lines, audio_files) IN
            IF result.error # << >>
            THEN /\ raised' = "ValidationError"
                 /\ error_message' = result.error[1]
                 /\ pc' = "except"
                 /\ UNCHANGED <<ordered_filenames, log>>
            ELSE /\ ordered_filenames' = result.ordered_filenames
                 /\ log' = log \o result.notice
                 /\ pc' = "select"
                 /\ UNCHANGED <<raised, error_message>>
       ELSE \E names \in ListsOf(audio_files) :
                IF sort_error(names) # "none"
                THEN /\ raised' = sort_error(names)
                     /\ error_message' = Message("natural_sort", {})
                     /\ pc' = "except"
                     /\ UNCHANGED <<ordered_filenames, log>>
                ELSE /\ ordered_filenames' = natural_sort(names)
                     /\ pc' = "select"
                     /\ UNCHANGED <<raised, error_message, log>>
    /\ UNCHANGED <<tracks, audio_files, order_lines, calls>>
    /\ UNCHANGED ingestFrame

(* ingest.py lines 244-251 *)
RandomSelect ==
    /\ pc = "select"
    /\ IF num_tracks # 0 /\ num_tracks < Len(ordered_filenames)
       THEN ordered_filenames' \in Samples(ordered_filenames, num_tracks)
       ELSE UNCHANGED ordered_filenames
    /\ pc' = "probe"
    /\ UNCHANGED <<tracks, audio_files, order_lines, log, calls, raised,
                   error_message>>
    /\ UNCHANGED ingestFrame

(* variant: the loop stops at the first file whose probe fails *)
next_probe_index_stop_at_failure(records, names) ==
    IF \E i \in DOMAIN records : records[i].kind = "skipped"
    THEN Len(names) + 1
    ELSE Len(records) + 1

(* line 255: the position of the loop in ordered_filenames, one record     *)
(* being logged per file probed                                            *)
next_probe_index(records, names) == Len(records) + 1

(* ingest.py lines 255-266, 185-207: one iteration of the probe loop: the  *)
(* file is probed and kept, or its probe fails and it is skipped with a    *)
(* warning, or the call is interrupted                                     *)
ProbeTrack ==
    /\ pc = "probe"
    /\ next_probe_index(ProbeRecords, ordered_filenames) <= Len(ordered_filenames)
    /\ LET filename ==
               ordered_filenames[next_probe_index(ProbeRecords, ordered_filenames)]
       IN  \/ /\ tracks' = Append(tracks, AudioTrack(filename))
              /\ log' = Append(log, [level |-> "info", kind |-> "probed",
                                     text |-> filename, names |-> {filename}])
              /\ UNCHANGED <<pc, raised>>
           \/ /\ log' = Append(log, [level |-> "warning", kind |-> "skipped",
                                     text |-> "Skipping corrupted file " \o filename,
                                     names |-> {filename}])
              /\ UNCHANGED <<pc, raised, tracks>>
           \/ /\ raised' = "KeyboardInterrupt"
              /\ pc' = "except"
              /\ UNCHANGED <<tracks, log>>
    /\ UNCHANGED <<audio_files, order_lines, ordered_filenames, calls,
                   error_message>>
    /\ UNCHANGED ingestFrame

(* maple_lofi/pipeline.py line 58, soundweave/pipeline.py line 59 *)
order_source ==
    IF order_file_exists THEN "order.txt"
    ELSE IF package = "soundweave" THEN "random_selection" ELSE "natural_sort"

(* ingest.py lines 268-275 and pipeline.py lines 52-68: no track is left   *)
(* and ingest raises, or it returns the tracks and the ledger gets the     *)
(* inputs and the stage's entry; the directory listing and the text of     *)
(* order.txt are read by this stage only and are let go when it returns    *)
IngestReturn ==
    /\ pc = "probe"
    /\ next_probe_index(ProbeRecords, ordered_filenames) > Len(ordered_filenames)
    /\ IF tracks = << >>
       THEN /\ raised' = "ValidationError"
            /\ error_message' =
                   Message("No valid audio tracks found after filtering", {})
            /\ pc' = "except"
            /\ UNCHANGED <<manifest, audio_files, order_lines>>
       ELSE /\ \E ingest_duration \in Elapsed :
                   manifest' =
                       add_stage_result(
                           [manifest EXCEPT
                               !.audio_files =
                                   [i \in DOMAIN tracks |-> tracks[i].filename],
                               !.order_source = order_source],
                           "ingest", "success", ingest_duration,
                           {<<"tracks_found", Len(tracks)>>})
            /\ audio_files' = {}
            /\ order_lines' = << >>
            /\ pc' = "merge_stage"
            /\ UNCHANGED <<raised, error_message>>
    /\ UNCHANGED <<tracks, ordered_filenames, log, filter_parts, cmd, exit_code,
                   default_crossfade_s, crossfades, warnings, current_label,
                   lofiVars, otherVars, order_file_exists, manifest_file,
                   write_calls, traceVars, final_audio>>

NextIngest ==
    \/ DiscoverAudioFiles
    \/ DetermineTrackOrder
    \/ RandomSelect
    \/ ProbeTrack
    \/ IngestReturn

----------------------------------------------------------------------------
(* Pipeline.run: the stages after ingest, and the ledger write *)

MergedMp3 == "merged.mp3"
TimestampsPath == "youtube_description.txt"
FinalVideo == "final_video.mp4"
Thumbnail == "thumbnail.png"
CoverImage == "cover.png"

(* commands.py lines 256-263: the MP3 encoding command *)
build_mp3_command(input_wav, output_mp3) ==
    <<"ffmpeg", "-i", input_wav, "-codec:a", "libmp3lame", "-b:a", "320k",
      "-y", output_mp3>>

(* variant: the video is always rendered over the merged audio *)
build_video_command_merged_audio(audio_path, cover_image, output_path) ==
    <<"ffmpeg", "-loop", "1", "-i", cover_image, "-i", OutputPath,
      "-c:v", "libx264", "-preset", "medium", "-tune", "stillimage",
      "-crf", "18", "-pix_fmt", "yuv420p", "-profile:v", "high", "-r", "1",
      "-vf", "scale=1920:1080:force_original_aspect_ratio=decrease,pad=1920:1080:(ow-iw)/2:(oh-ih)/2:black",
      "-c:a", "aac", "-b:a", "192k", "-shortest", "-t", "duration_s", "-y",
      output_path>>

(* commands.py lines 291-313: build_video_command; the duration is the one *)
(* the probe of the audio reported                                         *)
build_video_command(audio_path, cover_image, output_path) ==
    <<"ffmpeg", "-loop", "1", "-i", cover_image, "-i", audio_path,
      "-c:v", "libx264", "-preset", "medium", "-tune", "stillimage",
      "-crf", "18", "-pix_fmt", "yuv420p", "-profile:v", "high", "-r", "1",
      "-vf", "scale=1920:1080:force_original_aspect_ratio=decrease,pad=1920:1080:(ow-iw)/2:(oh-ih)/2:black",
      "-c:a", "aac", "-b:a", "192k", "-shortest", "-t", "duration_s", "-y",
      output_path>>

(* the variables of the stage functions' own state *)
stageVars == <<filter_parts, mergeVars, current_stream, tempo, mp3_cmd>>

(* the outcomes of run_ffmpeg(command) that do not return: the engine      *)
(* fails, or the blocking call is interrupted                              *)
EngineFails(description) ==
    \/ /\ raised' = "ProcessingError"
       /\ error_message' = Message("FFmpeg failed: " \o description, {})
    \/ /\ raised' = "KeyboardInterrupt"
       /\ UNCHANGED error_message

(* pipeline.py lines 74-85: merge_stage returned *)
MergeDone ==
    /\ pc = "merged"
    /\ package # ""
    /\ \E merge_duration \in Elapsed :
           manifest' =
               add_stage_result(add_output(manifest, "merged_clean"), "merge",
                                "success", merge_duration,
                                {<<"crossfades_applied", Len(tracks) - 1>>})
    /\ pc' = "stage3"
    /\ UNCHANGED <<stageVars, cmd, config, raised, exit_code, otherVars,
                   ingestVars, error_message, manifest_file, write_calls,
                   traceVars, final_audio>>

(* maple_lofi/pipeline.py lines 88-90, lofi.py lines 41-101: lofi_stage is *)
(* called and builds its commands                                          *)
LofiStage ==
    /\ pc = "stage3"
    /\ package = "maple_lofi"
    /\ ~skip_lofi
    /\ calls' = Append(calls, "lofi")
    /\ config' = DefaultLofiConfig
    /\ pc' = "build_lofi_command"
    /\ UNCHANGED <<stageVars, cmd, raised, exit_code, otherVars, ingestVars,
                   error_message, ledgerVars, requests, artifacts, final_audio>>

(* lofi.py lines 103-113 *)
RunLofiWav ==
    /\ pc = "lofi_built"
    /\ package # ""
    /\ requests' = Append(requests, cmd)
    /\ \/ /\ artifacts' = artifacts \cup {OutputWav}
          /\ pc' = "lofi_mp3"
          /\ UNCHANGED <<raised, error_message>>
       \/ /\ EngineFails("Lofi transformation to WAV")
          /\ pc' = "except"
          /\ UNCHANGED artifacts
    /\ UNCHANGED <<stageVars, cmd, config, exit_code, otherVars, ingestVars,
                   ledgerVars, calls, final_audio>>

(* lofi.py lines 115-129, maple_lofi/pipeline.py lines 91-101 *)
RunLofiMp3 ==
    /\ pc = "lofi_mp3"
    /\ requests' = Append(requests, mp3_cmd)
    /\ \/ /\ artifacts' = artifacts \cup {OutputMp3}
          /\ \E lofi_duration \in Elapsed :
                 manifest' =
                     add_stage_result(
                         add_output(add_output(manifest, "merged_lofi_wav"),
                                    "merged_lofi_mp3"),
                         "lofi", "success", lofi_duration, {})
          /\ final_audio' = OutputWav
          /\ pc' = "stage4"
          /\ UNCHANGED <<raised, error_message>>
       \/ /\ EngineFails("MP3 encoding (320kbps CBR)")
          /\ pc' = "except"
          /\ UNCHANGED <<artifacts, manifest, final_audio>>
    /\ UNCHANGED <<stageVars, cmd, config, exit_code, otherVars, ingestVars,
                   manifest_file, write_calls, calls>>

(* maple_lofi/pipeline.py lines 102-110 *)
LofiSkip ==
    /\ pc = "stage3"
    /\ package = "maple_lofi"
    /\ skip_lofi
    /\ manifest' = add_stage_result(manifest, "lofi", "skipped", 0, {})
    /\ final_audio' = OutputPath
    /\ pc' = "stage4"
    /\ UNCHANGED <<stageVars, cmd, config, raised, exit_code, otherVars,
                   ingestVars, error_message, manifest_file, write_calls,
                   traceVars>>

(* soundweave/pipeline.py lines 86-103: the MP3 of the merged audio *)
EncodeMp3 ==
    /\ pc = "stage3"
    /\ package = "soundweave"
    /\ calls' = Append(calls, "encoding")
    /\ cmd' = build_mp3_command(OutputPath, MergedMp3)
    /\ requests' = Append(requests, cmd')
    /\ \/ /\ artifacts' = artifacts \cup {MergedMp3}
          /\ pc' = "timestamps"
          /\ UNCHANGED <<raised, error_message>>
       \/ /\ EngineFails("MP3 encoding (320kbps CBR)")
          /\ pc' = "except"
          /\ UNCHANGED artifacts
    /\ UNCHANGED <<stageVars, config, exit_code, otherVars, ingestVars,
                   ledgerVars, final_audio>>

(* soundweave/pipeline.py lines 105-129, youtube.py lines 131-160: the     *)
(* timestamp file is written, or open() fails                              *)
WriteTimestamps ==
    /\ pc = "timestamps"
    /\ \/ /\ timestamps' =
                 write_youtube_description(tracks, default_crossfade_s, << >>)
          /\ artifacts' = artifacts \cup {TimestampsPath}
          /\ \E encoding_duration \in Elapsed :
                 manifest' =
                     add_stage_result(
                         add_output(add_output(add_output(manifest, "merged_wav"),
                                               "merged_mp3"),
                                    "youtube_description"),
                         "encoding", "success", encoding_duration, {})
          /\ final_audio' = OutputPath
          /\ pc' = "stage4"
          /\ UNCHANGED <<raised, error_message>>
       \/ /\ raised' = "OSError"
          /\ error_message' = Message("cannot write " \o TimestampsPath, {})
          /\ pc' = "except"
          /\ UNCHANGED <<artifacts, manifest, final_audio, timestamps>>
    /\ UNCHANGED <<stageVars, cmd, config, exit_code, inputVars, ingestVars,
                   manifest_file, write_calls, calls, requests>>

(* pipeline.py lines 131-138 of maple_lofi, 150-157 of soundweave *)
VideoSkip ==
    /\ pc = "stage4"
    /\ ~image
    /\ manifest' = add_stage_result(manifest, "video", "skipped", 0, {})
    /\ pc' = "write_manifest"
    /\ UNCHANGED <<stageVars, cmd, config, raised, exit_code, otherVars,
                   ingestVars, error_message, manifest_file, write_calls,
                   traceVars, final_audio>>

(* video.py lines 42-54, probe.py lines 22-103: video_stage is called and  *)
(* probes the audio it was given                                           *)
VideoProbe ==
    /\ pc = "stage4"
    /\ image
    /\ calls' = Append(calls, "video")
    /\ \/ /\ pc' = "render"
          /\ UNCHANGED <<raised, error_message>>
       \/ /\ raised' = "ValidationError"
          /\ error_message' = Message("ffprobe failed for " \o final_audio, {})
          /\ pc' = "except"
       \/ /\ raised' = "KeyboardInterrupt"
          /\ pc' = "except"
          /\ UNCHANGED error_message
    /\ UNCHANGED <<stageVars, cmd, config, exit_code, otherVars, ingestVars,
                   ledgerVars, requests, artifacts, final_audio>>

(* video.py lines 56-77 *)
RenderVideo ==
    /\ pc = "render"
    /\ cmd' = build_video_command(final_audio, CoverImage, FinalVideo)
    /\ requests' = Append(requests, cmd')
    /\ \/ /\ artifacts' = artifacts \cup {FinalVideo}
          /\ pc' = "thumbnail"
          /\ UNCHANGED <<raised, error_message>>
       \/ /\ EngineFails("Video rendering with static image")
          /\ pc' = "except"
          /\ UNCHANGED artifacts
    /\ UNCHANGED <<stageVars, config, exit_code, otherVars, ingestVars,
                   ledgerVars, calls, final_audio>>

(* video.py lines 79-88, pipeline.py lines 120-130 of maple_lofi: the      *)
(* image is copied and the stage returns, or the copy fails                *)
CopyThumbnail ==
    /\ pc = "thumbnail"
    /\ \/ /\ artifacts' = artifacts \cup {Thumbnail}
          /\ \E video_duration \in Elapsed :
                 manifest' =
                     add_stage_result(
                         add_output(add_output(manifest, "final_video"), "thumbnail"),
                         "video", "success", video_duration, {})
          /\ pc' = "write_manifest"
          /\ UNCHANGED <<raised, error_message>>
       \/ /\ raised' = "OSError"
          /\ error_message' = Message("cannot write " \o Thumbnail, {})
          /\ pc' = "except"
          /\ UNCHANGED <<artifacts, manifest>>
    /\ UNCHANGED <<stageVars, cmd, config, exit_code, otherVars, ingestVars,
                   manifest_file, write_calls, calls, requests, final_audio>>

(* pipeline.py lines 142-159, manifest.py lines 172-182: the ledger is     *)
(* written and run returns 0, or open() or json.dump raises                *)
WriteManifest ==
    /\ pc = "write_manifest"
    /\ write_calls' = write_calls + 1
    /\ \/ /\ manifest_file' = <<manifest>>
          /\ exit_code' = 0
          /\ pc' = "returned"
          /\ UNCHANGED <<raised, error_message>>
       \/ /\ raised' = "OSError"
          /\ error_message' = Message("cannot write manifest.json", {})
          /\ pc' = "except"
          /\ UNCHANGED <<manifest_file, exit_code>>
    /\ UNCHANGED <<stageVars, cmd, config, otherVars, ingestVars, manifest,
                   traceVars, final_audio>>

NextStages ==
    \/ MergeDone
    \/ LofiStage
    \/ RunLofiWav
    \/ RunLofiMp3
    \/ LofiSkip
    \/ EncodeMp3
    \/ WriteTimestamps
    \/ VideoSkip
    \/ VideoProbe
    \/ RenderVideo
    \/ CopyThumbnail
    \/ WriteManifest

----------------------------------------------------------------------------
(* natural_sort applied on its own, to a list of names and to the same    *)
(* names listed in another order                                           *)

MaxItems == 3

SortNames == {"t1", "t2", "t10", "T2", "t01", "<U+00B2>1"}

(* the variables of the stage functions, none of them running *)
StagesIdle ==
    /\ tracks = << >>
    /\ default_crossfade_s = 0
    /\ crossfades = << >>
    /\ warnings = << >>
    /\ filter_parts = << >>
    /\ current_label = ""
    /\ cmd = << >>
    /\ config = NoConfig
    /\ current_stream = ""
    /\ tempo = <<1, 1>>
    /\ mp3_cmd = << >>

InitSort ==
    /\ pc = "natural_sort"
    /\ item_list \in UNION { [1..n -> SortNames] : n \in 0..MaxItems }
    /\ reordered \in { [i \in DOMAIN item_list |-> item_list[q[i]]] :
                          q \in Permutations(DOMAIN item_list) }
    /\ sorted_items = << >>
    /\ sorted_reordered = << >>
    /\ raised = "none"
    /\ exit_code = -1
    /\ StagesIdle
    /\ RunIdle
    /\ StampsIdle

(* natural_sort.py lines 30-43, on both lists *)
NaturalSort ==
    /\ pc = "natural_sort"
    /\ IF sort_error(item_list) # "none"
       THEN /\ raised' = sort_error(item_list)
            /\ UNCHANGED <<sorted_items, sorted_reordered>>
       ELSE /\ sorted_items' = natural_sort(item_list)
            /\ sorted_reordered' = natural_sort(reordered)
            /\ UNCHANGED raised
    /\ pc' = "sorted"
    /\ UNCHANGED <<item_list, reordered, actual_timestamps, timestamps, configVars>>
    /\ UNCHANGED <<filter_parts, cmd, exit_code, mergeVars, lofiVars, ingestVars,
                   error_message, ledgerVars, traceVars, final_audio>>

----------------------------------------------------------------------------
(* write_youtube_description applied on its own *)

MaxStampTracks == 3

(* durations, in seconds *)
StampDurations == {1, 8, 10, 12}

(* probe.py lines 205-217: what detect_track_boundaries returns, 0.0 and   *)
(* the silences found, as many as the tracks or one more; none when the    *)
(* argument is left out                                                    *)
Empirical(n) ==
    { << >>,
      [i \in 1..n |-> 5 * TicksPerSecond * (i - 1)],
      [i \in 1..(n + 1) |-> 5 * TicksPerSecond * (i - 1)] }

InitStamps ==
    /\ pc = "write_youtube_description"
    /\ tracks \in
           UNION { { [i \in 1..n |->
                        [filename |-> Filenames[((i - 1) % Len(Filenames)) + 1],
                         duration_s |-> TicksPerSecond * ds[i]]] :
                     ds \in [1..n -> StampDurations] } : n \in 0..MaxStampTracks }
    /\ default_crossfade_s \in {0, 2 * TicksPerSecond}
    /\ actual_timestamps \in Empirical(Len(tracks))
    /\ timestamps = << >>
    /\ crossfades = << >>
    /\ warnings = << >>
    /\ filter_parts = << >>
    /\ current_label = ""
    /\ cmd = << >>
    /\ config = NoConfig
    /\ current_stream = ""
    /\ tempo = <<1, 1>>
    /\ mp3_cmd = << >>
    /\ raised = "none"
    /\ exit_code = -1
    /\ RunIdle
    /\ SortIdle

(* youtube.py lines 131-160 *)
WriteYoutubeDescription ==
    /\ pc = "write_youtube_description"
    /\ timestamps' =
           write_youtube_description(tracks, default_crossfade_s, actual_timestamps)
    /\ pc' = "described"
    /\ UNCHANGED <<inputVars, filter_parts, cmd, raised, exit_code, mergeVars,
                   lofiVars, ingestVars, error_message, ledgerVars, traceVars,
                   final_audio>>

Init == InitMerge \/ InitLofi \/ InitRun \/ InitSort \/ InitStamps

Next ==
    \/ NextMerge \/ NextLofi \/ NextIngest \/ NextStages
    \/ NaturalSort \/ WriteYoutubeDescription

Spec == Init /\ [][Next]_vars

----------------------------------------------------------------------------
(* Properties of the crossfade scheduler and of the merge graph *)

MergeScheduled == \E i \in DOMAIN calls : calls[i] = "merge"

MergeBuilt == pc \in {"run_ffmpeg", "merged"}

NumTracks == Len(tracks)

(* the length of the shorter track of the pair (i, i+1) *)
PairMin(i) ==
    IF tracks[i].duration_s < tracks[i + 1].duration_s
    THEN tracks[i].duration_s
    ELSE tracks[i + 1].duration_s

Pairs == 1..(NumTracks - 1)

WarningsOfPair(i) == { k \in DOMAIN warnings : warnings[k].pair = i }

RECURSIVE InputPaths(_)
(* the paths a command declares with -i, in order *)
InputPaths(c) ==
    IF Len(c) < 2 THEN << >>
    ELSE IF c[1] = "-i" THEN <<c[2]>> \o InputPaths(Tail(Tail(c)))
    ELSE InputPaths(Tail(c))

(* the tokens that follow the flag in a command *)
ArgsOf(c, flag) == { c[k + 1] : k \in { j \in 1..(Len(c) - 1) : c[j] = flag } }

Occurrences(c, token) == Cardinality({ k \in DOMAIN c : c[k] = token })

Produced(parts) == { parts[k].out : k \in DOMAIN parts }

Consumed(parts) ==
    UNION { { parts[k].ins[j] : j \in DOMAIN parts[k].ins } : k \in DOMAIN parts }

(* C1: every scheduled crossfade is at most the length of the shorter      *)
(* track of its pair and at least one second.                              *)
C1_CrossfadeWithinPairAndFloor ==
    MergeScheduled =>
        \A i \in DOMAIN crossfades :
            /\ crossfades[i] <= PairMin(i)
            /\ crossfades[i] >= OneSecond

(* C2: a pair whose shorter track is shorter than the default gets         *)
(* max(1.0, m * 0.5) and one warning naming the shorter track; any other   *)
(* pair gets the default and no warning.                                   *)
C2_ShrinkAndFloorPolicy ==
    MergeScheduled =>
        /\ DOMAIN crossfades = Pairs
        /\ \A i \in Pairs :
            IF PairMin(i) < default_crossfade_s
            THEN /\ 2 * crossfades[i] =
                        (IF PairMin(i) > 2 * OneSecond
                         THEN PairMin(i) ELSE 2 * OneSecond)
                 /\ Cardinality(WarningsOfPair(i)) = 1
                 /\ \A k \in WarningsOfPair(i) :
                        \E j \in {i, i + 1} :
                            /\ tracks[j].filename = warnings[k].filename
                            /\ tracks[j].duration_s = PairMin(i)
            ELSE /\ crossfades[i] = default_crossfade_s
                 /\ WarningsOfPair(i) = {}

C2_Witness ==
    /\ MergeScheduled
    /\ \E i \in Pairs :
        /\ PairMin(i) < default_crossfade_s
        /\ PairMin(i) > 2 * OneSecond
        /\ tracks[i].duration_s < tracks[i + 1].duration_s
        /\ WarningsOfPair(i) # {}
    /\ \E i \in Pairs :
        /\ PairMin(i) >= default_crossfade_s
        /\ WarningsOfPair(i) = {}

(* C3 as stated: a crossfade is at most half of the shorter track whenever *)
(* the default exceeds that half-length, and is the default otherwise.     *)
C3_HalfLengthCap ==
    MergeScheduled =>
        \A i \in DOMAIN crossfades :
            IF 2 * default_crossfade_s > PairMin(i)
            THEN 2 * crossfades[i] <= PairMin(i)
            ELSE crossfades[i] = default_crossfade_s

(* C3 amended: a crossfade is at most max(1.0, half of the shorter track)  *)
(* whenever the default exceeds the full length of the shorter track, and  *)
(* is the default otherwise.                                               *)
C3_FullLengthCap ==
    MergeScheduled =>
        /\ DOMAIN crossfades = Pairs
        /\ \A i \in Pairs :
            IF default_crossfade_s > PairMin(i)
            THEN 2 * crossfades[i] <=
                    (IF PairMin(i) > 2 * OneSecond
                     THEN PairMin(i) ELSE 2 * OneSecond)
            ELSE crossfades[i] = default_crossfade_s

C3_Witness ==
    /\ MergeScheduled
    /\ \E i \in Pairs :
        /\ 2 * default_crossfade_s > PairMin(i)
        /\ default_crossfade_s <= PairMin(i)
        /\ crossfades[i] = default_crossfade_s
    /\ \E i \in Pairs :
        /\ default_crossfade_s > PairMin(i)
        /\ 2 * crossfades[i] = PairMin(i)

(* C4: the plan has one entry per adjacent pair, entry i being the         *)
(* crossfade of the pair (i, i+1); it is empty exactly when there are at   *)
(* most one track, and has one entry for two tracks.                       *)
C4_PlanShape ==
    MergeScheduled =>
        /\ Len(crossfades) = (IF NumTracks <= 1 THEN 0 ELSE NumTracks - 1)
        /\ (Len(crossfades) = 0 <=> NumTracks <= 1)
        /\ (NumTracks = 2 => Len(crossfades) = 1)
        /\ \A i \in DOMAIN crossfades :
            crossfades[i] \in
                { default_crossfade_s,
                  (IF PairMin(i) > 2 * OneSecond
                   THEN PairMin(i) \div 2 ELSE OneSecond) }
        /\ \A i \in DOMAIN crossfades :
            (crossfades[i] = default_crossfade_s) \/ (PairMin(i) < default_crossfade_s)

C4_Witness ==
    /\ MergeScheduled
    /\ NumTracks = MaxTracks
    /\ Len(crossfades) = MaxTracks - 1
    /\ \E i, j \in DOMAIN crossfades : crossfades[i] # crossfades[j]

(* C5: the merge command declares the N tracks as its inputs, in track     *)
(* order, and has one terminal output: for N > 1 the one label of the      *)
(* graph that no node consumes, which is the only mapped label; for N = 1  *)
(* a loudnorm -af chain with no graph.  Building it again from the same    *)
(* tracks and plan gives the same command text.                            *)
C5_MergeCommandShape ==
    MergeBuilt =>
        /\ InputPaths(cmd) = [i \in 1..NumTracks |-> tracks[i].filename]
        /\ Occurrences(cmd, "-i") = NumTracks
        /\ cmd[Len(cmd)] = OutputPath
        /\ Occurrences(cmd, OutputPath) = 1
        /\ IF NumTracks = 1
           THEN /\ filter_parts = << >>
                /\ Occurrences(cmd, "-map") = 0
                /\ Occurrences(cmd, "-filter_complex") = 0
                /\ ArgsOf(cmd, "-af") = {Loudnorm}
                /\ cmd = single_track_command(tracks)
           ELSE /\ Occurrences(cmd, "-map") = 1
                /\ Occurrences(cmd, "-filter_complex") = 1
                /\ Cardinality(Produced(filter_parts) \ Consumed(filter_parts)) = 1
                /\ ArgsOf(cmd, "-map") =
                       { "[" \o l \o "]" :
                           l \in Produced(filter_parts) \ Consumed(filter_parts) }
                /\ ArgsOf(cmd, "-filter_complex") = {Join(filter_parts)}
                /\ cmd = multi_track_command(tracks, crossfades)

C5_Witness ==
    /\ MergeBuilt
    /\ NumTracks = MaxTracks
    /\ Occurrences(cmd, "-map") = 1
    /\ InputPaths(cmd)[MaxTracks] = FileName(MaxTracks)

(* C6: for N > 1 the graph is N loudnorm nodes followed by N-1 crossfade   *)
(* nodes; crossfade node i consumes the accumulated label (norm0 first,    *)
(* then the output of crossfade node i-1) and the normalized stream of     *)
(* track i+1, with plan duration i; both labels are produced by earlier    *)
(* nodes; the last crossfade node's label is the mapped output.            *)
C6_CrossfadeFold ==
    (MergeBuilt /\ NumTracks > 1) =>
        /\ Len(filter_parts) = 2 * NumTracks - 1
        /\ \A k \in 1..NumTracks :
            /\ filter_parts[k].filter = Loudnorm
            /\ filter_parts[k].ins = <<ToString(k - 1) \o ":a">>
            /\ filter_parts[k].out = "norm" \o ToString(k - 1)
        /\ \A i \in 0..(NumTracks - 2) :
            LET node == filter_parts[NumTracks + i + 1] IN
            /\ node.filter = "acrossfade=d=" \o SecondsText(crossfades[i + 1])
                                \o ":c1=tri:c2=tri"
            /\ node.ins[1] = (IF i = 0 THEN "norm0"
                              ELSE filter_parts[NumTracks + i].out)
            /\ node.ins[2] = "norm" \o ToString(i + 1)
            /\ Len(node.ins) = 2
            /\ node.value = <<crossfades[i + 1]>>
            /\ \A j \in DOMAIN node.ins :
                \E e \in 1..(NumTracks + i) : filter_parts[e].out = node.ins[j]
        /\ ArgsOf(cmd, "-map") =
               { "[" \o filter_parts[Len(filter_parts)].out \o "]" }

C6_Witness ==
    /\ MergeBuilt
    /\ NumTracks = 3
    /\ filter_parts[5].ins = <<"a1", "norm2">>
    /\ filter_parts[5].out = "a2"
    /\ filter_parts[4].value # filter_parts[5].value

(* C7: building the merge graph for zero tracks fails with                 *)
(* ConfigurationError and no command, and the run is not given the status  *)
(* of a processing failure.                                                *)
C7_ZeroTracksConfigurationError ==
    (pc = "returned" /\ MergeScheduled /\ NumTracks = 0) =>
        /\ raised = "ConfigurationError"
        /\ cmd = << >>
        /\ exit_code # exit_status("ProcessingError")

----------------------------------------------------------------------------
(* Properties of the aesthetic graph *)

LofiBuilt == pc = "lofi_built"

TempoDone == pc \in {"eq", "lofi_built"}

IsTempoNode(n) == n.out \in {"tempo_intermediate", "tempo"}

(* the atempo nodes of the graph, in order *)
TempoChain == SelectSeq(filter_parts, IsTempoNode)

RECURSIVE Product(_)
Product(values) ==
    IF values = << >> THEN 1 ELSE Head(values) * Product(Tail(values))

RECURSIVE Power(_, _)
Power(b, e) == IF e = 0 THEN 1 ELSE b * Power(b, e - 1)

TempoRatios == [k \in DOMAIN TempoChain |-> TempoChain[k].value[1]]

(* C8: for a factor f > 0, f # 1, every tempo node has a ratio within      *)
(* [0.5, 2.0], the chain is boundary-ratio nodes followed by at most one   *)
(* residual node, the product of the ratios is f, and f = 0.25 gives two   *)
(* nodes of ratio 0.5.                                                     *)
C8_TempoDecomposition ==
    (TempoDone /\ config.tempo_factor > 0 /\ config.tempo_factor # TempoUnit) =>
        /\ \A k \in DOMAIN TempoRatios : TempoRatios[k] \in 500..2000
        /\ \A k \in DOMAIN TempoChain :
            k < Len(TempoChain) =>
                /\ TempoChain[k].out = "tempo_intermediate"
                /\ TempoRatios[k] \in {500, 2000}
        /\ Product(TempoRatios) * TempoUnit =
               config.tempo_factor * Power(1000, Len(TempoRatios))
        /\ (4 * config.tempo_factor = TempoUnit => TempoRatios = <<500, 500>>)

AuxLabels == {"texture", "drums", "texture_vol", "drums_vol"}

IsMainNode(n) == n.out \notin AuxLabels

(* the nodes of the primary stream: mix, tempo, EQ, reverb, saturation,    *)
(* compression, limiter                                                    *)
MainChain == SelectSeq(filter_parts, IsMainNode)

DeclaredInputs ==
    { ToString(i) \o ":a" : i \in 0..(Occurrences(cmd, "-i") - 1) }

(* C9: in the finished aesthetic graph every node consumes only declared   *)
(* inputs or labels of earlier nodes, and every node of the primary stream *)
(* consumes the label of the primary-stream node before it, 0:a when there *)
(* is none.                                                                *)
C9_LabelContinuity ==
    LofiBuilt =>
        /\ \A k \in DOMAIN filter_parts :
            \A j \in DOMAIN filter_parts[k].ins :
                \/ filter_parts[k].ins[j] \in DeclaredInputs
                \/ \E e \in 1..(k - 1) :
                       filter_parts[e].out = filter_parts[k].ins[j]
        /\ \A k \in DOMAIN MainChain :
            /\ MainChain[k].ins[1] =
                   (IF k = 1 THEN "0:a" ELSE MainChain[k - 1].out)
            /\ (MainChain[k].out # "mixed" => Len(MainChain[k].ins) = 1)
        /\ MainChain[Len(MainChain)].out = "out"

C9_Witness ==
    /\ LofiBuilt
    /\ ~config.texture /\ ~config.drums
    /\ config.tempo_factor = TempoUnit
    /\ ~config.enable_reverb /\ config.enable_saturation
    /\ ~config.enable_compression
    /\ filter_parts[1].ins = <<"0:a">>
    /\ Len(filter_parts) = 4
    /\ filter_parts[4].ins = <<"sat">>

(* C10: in every graph a builder emits, merge or aesthetic, no two nodes   *)
(* produce the same label and no node consumes the label it produces.      *)
C10_LabelsProducedOnce ==
    (MergeBuilt \/ LofiBuilt) =>
    /\ \A k, e \in DOMAIN filter_parts :
        k # e => filter_parts[k].out # filter_parts[e].out
    /\ \A k \in DOMAIN filter_parts :
        \A j \in DOMAIN filter_parts[k].ins :
            filter_parts[k].ins[j] # filter_parts[k].out

(* the stage of the aesthetic chain a node belongs to, read from the text  *)
(* of its filter: 1 loop/delay, 2 gain and mix, 3 tempo, 4 high-pass,      *)
(* 5 low-pass, 6 reverb, 7 saturation, 8 compression, 9 limiter            *)
IsLoopNode(n) ==
    \/ n.filter = Aloop
    \/ /\ n.value # << >>
       /\ n.filter = Aloop \o ",adelay=" \o ToString(n.value[1])
                          \o "|" \o ToString(n.value[1])

IsGainOrMixNode(n) ==
    \/ n.filter \in {"volume=-26.0dB", "volume=-22.0dB"}
    \/ /\ n.value # << >>
       /\ n.filter = "amix=inputs=" \o ToString(n.value[1]) \o ":normalize=0"

IsAtempoNode(n) ==
    \/ n.filter \in {"atempo=0.5", "atempo=2.0"}
    \/ /\ n.value # << >>
       /\ n.filter = "atempo=" \o ThousandthsText(n.value[1])

StageRank(n) ==
    CASE IsLoopNode(n) -> 1
      [] IsGainOrMixNode(n) -> 2
      [] IsAtempoNode(n) -> 3
      [] n.filter = "highpass=f=35" -> 4
      [] n.filter = "lowpass=f=9500" -> 5
      [] n.filter = "aecho=in_gain=0.8:out_gain=0.88:delays=60|120:decays=0.3|0.25" -> 6
      [] n.filter = "asubboost=dry=0.5:wet=0.5:boost=3:decay=0.6:feedback=0.6:cutoff=150" -> 7
      [] n.filter = "acompressor=ratio=2.0:threshold=-23.0dB:attack=25.0:release=200.0" -> 8
      [] n.filter = "alimiter=limit=-1dB:attack=5:release=50" -> 9
      [] OTHER -> 0

NodesOfRank(r) == { k \in DOMAIN filter_parts : StageRank(filter_parts[k]) = r }

BoolCount(b) == IF b THEN 1 ELSE 0

(* C11: in every finished aesthetic graph the nodes appear in the order    *)
(* loop/delay, gain and mix, tempo, high-pass, low-pass, reverb,           *)
(* saturation, compression, limiter; a stage has nodes exactly when the    *)
(* configuration enables it; the high-pass/low-pass pair and the limiter   *)
(* are always there, the limiter is the last node, and its label is the    *)
(* only label the command maps to the output file.                         *)
C11_StageOrderAndLimiter ==
    LofiBuilt =>
        /\ \A k \in DOMAIN filter_parts : StageRank(filter_parts[k]) \in 1..9
        /\ \A k, e \in DOMAIN filter_parts :
            k < e => StageRank(filter_parts[k]) <= StageRank(filter_parts[e])
        /\ Cardinality(NodesOfRank(1)) =
               BoolCount(config.texture) + BoolCount(config.drums)
        /\ Cardinality(NodesOfRank(2)) =
               (IF config.texture \/ config.drums
                THEN BoolCount(config.texture) + BoolCount(config.drums) + 1
                ELSE 0)
        /\ (NodesOfRank(3) # {} <=> config.tempo_factor # TempoUnit)
        /\ Cardinality(NodesOfRank(4)) = 1
        /\ Cardinality(NodesOfRank(5)) = 1
        /\ Cardinality(NodesOfRank(6)) = BoolCount(config.enable_reverb)
        /\ Cardinality(NodesOfRank(7)) = BoolCount(config.enable_saturation)
        /\ Cardinality(NodesOfRank(8)) = BoolCount(config.enable_compression)
        /\ NodesOfRank(9) = {Len(filter_parts)}
        /\ Occurrences(cmd, "-map") = 1
        /\ ArgsOf(cmd, "-map") =
               { "[" \o filter_parts[Len(filter_parts)].out \o "]" }
        /\ cmd[Len(cmd)] = OutputWav
        /\ Occurrences(cmd, OutputWav) = 1

C11_Witness ==
    /\ LofiBuilt
    /\ config.texture /\ config.drums /\ config.drums_start_s > 0
    /\ config.tempo_factor > 2 * TempoUnit
    /\ config.enable_reverb /\ config.enable_saturation
    /\ config.enable_compression
    /\ Len(filter_parts) >= 12
    /\ StageRank(filter_parts[Len(filter_parts) - 1]) = 8
    /\ StageRank(filter_parts[Len(filter_parts)]) = 9

----------------------------------------------------------------------------
(* Pipeline.run: the order of the stages, the ledger and the exit status *)

InRun == package # ""

Returned == InRun /\ pc = "returned"

Called(name) == \E i \in DOMAIN calls : calls[i] = name

StageEntry(name) ==
    \E i \in DOMAIN manifest.stages : manifest.stages[i].name = name

(* Ingest, Merge, Aesthetic (its place is taken by the MP3 encoding in     *)
(* soundweave), Video                                                      *)
StageNumber(name) ==
    CASE name = "ingest" -> 1
      [] name = "merge" -> 2
      [] name \in {"lofi", "encoding"} -> 3
      [] name = "video" -> 4

Classified == {"ValidationError", "ProcessingError", "OutputError"}

(* a stage was called and did not complete: it has no entry in the ledger *)
StageFailed ==
    /\ raised # "none"
    /\ \E i \in DOMAIN calls : ~StageEntry(calls[i])

(* C12: in a pipeline run the stages are called in the order Ingest,       *)
(* Merge, Aesthetic, Video, none twice; a stage that has not completed is  *)
(* the last one called, so nothing starts after a failure; and when the    *)
(* run has ended on a failed stage the ledger holds the error, a write of  *)
(* the ledger has been issued, and the status is the failure's.            *)
C12_StagesInOrderFailureStops ==
    InRun =>
        /\ \A i, j \in DOMAIN calls :
               i < j => StageNumber(calls[i]) < StageNumber(calls[j])
        /\ \A i \in DOMAIN calls : ~StageEntry(calls[i]) => i = Len(calls)
        /\ (pc = "returned" /\ StageFailed) =>
               /\ manifest.errors # << >>
               /\ write_calls >= 1
               /\ exit_code # 0
               /\ raised \in Classified => exit_code = exit_status(raised)

(* C13: a run that returned success or a classified failure has the Run    *)
(* Ledger, as accumulated, on durable storage, and its status is the one   *)
(* of its outcome whatever the write on the error path did.                *)
C13_LedgerDurable ==
    (Returned /\ (raised = "none" \/ raised \in Classified)) =>
        /\ manifest_file = <<manifest>>
        /\ exit_code = (IF raised = "none" THEN 0 ELSE exit_status(raised))

(* C13, amended: a run that returned success or a classified failure has   *)
(* issued a write of the Run Ledger; after success the ledger is on        *)
(* durable storage; after a classified failure it is on durable storage    *)
(* unless that write failed, and the status is the failure's either way.   *)
C13_LedgerWriteAttempted ==
    (Returned /\ (raised = "none" \/ raised \in Classified)) =>
        /\ write_calls >= 1
        /\ raised = "none" => (manifest_file = <<manifest>> /\ exit_code = 0)
        /\ raised \in Classified =>
               /\ manifest_file \in {<< >>, <<manifest>>}
               /\ manifest.errors # << >>
               /\ exit_code = exit_status(raised)

C13_Witness ==
    /\ Returned
    /\ raised = "ProcessingError"
    /\ StageEntry("ingest") /\ ~StageEntry("merge")
    /\ write_calls = 1
    /\ manifest_file = << >>
    /\ exit_code = 2

(* every stage has its entry in the ledger, completed or skipped *)
AllStagesSettled ==
    /\ Len(manifest.stages) = 4
    /\ \A i \in DOMAIN manifest.stages :
           /\ StageNumber(manifest.stages[i].name) = i
           /\ manifest.stages[i].status \in {"success", "skipped"}

(* a write of the ledger or of an output artifact failed *)
OutputWriteFailed == raised \in {"OSError", "OutputError"}

(* C14: the exit status of a run is 0 exactly when every stage completed   *)
(* or was skipped and the ledger was written, 1 exactly for a validation   *)
(* failure, 2 exactly for a processing failure, 3 exactly for an output    *)
(* or filesystem failure.                                                  *)
C14_ExitStatusClassification ==
    Returned =>
        /\ exit_code \in 0..3
        /\ exit_code = 0 <=>
               (raised = "none" /\ AllStagesSettled /\ manifest_file = <<manifest>>)
        /\ exit_code = 1 <=> raised = "ValidationError"
        /\ exit_code = 2 <=> raised = "ProcessingError"
        /\ exit_code = 3 <=> OutputWriteFailed

(* C15: a run in which every transform issued succeeded and a write of the *)
(* ledger or of an output artifact failed returns the output-failure       *)
(* status 3.                                                               *)
C15_OutputFailureStatus ==
    (Returned /\ OutputWriteFailed) => exit_code = 3

(* C16: a run ended by an interrupt during a stage's blocking call ends    *)
(* with a failure status and has issued a write of the partial ledger.     *)
C16_InterruptFlushesLedger ==
    (Returned /\ raised = "KeyboardInterrupt") =>
        /\ exit_code # 0
        /\ write_calls >= 1

(* C17: a run that ended on a ValidationError returned the validation      *)
(* status, never started Merge, issued no transform request and wrote no   *)
(* output artifact.                                                        *)
C17_ValidationBeforeTransforms ==
    (Returned /\ raised = "ValidationError") =>
        /\ exit_code = exit_status("ValidationError")
        /\ ~Called("merge")
        /\ requests = << >>
        /\ artifacts = {}

----------------------------------------------------------------------------
(* ingest: probing, and the order an order.txt gives *)

IngestPositions == {"ingest_stage", "determine_track_order", "select", "probe"}

KeptRecords == SelectSeq(ProbeRecords, LAMBDA r : r.kind = "probed")

(* the interrupt arrived while ingest was probing *)
IngestInterrupted == raised = "KeyboardInterrupt" /\ ~StageEntry("ingest")

AllProbed == Len(ProbeRecords) = Len(ordered_filenames)

(* C18: the probe loop visits the resolved order file by file, a file      *)
(* whose probe fails is logged with a warning and left out, the others are *)
(* kept in their order, and the loop is left only when every file was      *)
(* probed; when every file was dropped ingest raises ValidationError,      *)
(* Merge is never called and the run returns the validation status.        *)
C18_ProbeFailureDropsFile ==
    InRun =>
        /\ Len(ProbeRecords) <= Len(ordered_filenames)
        /\ \A i \in DOMAIN ProbeRecords :
               /\ ProbeRecords[i].names = {ordered_filenames[i]}
               /\ ProbeRecords[i].kind = "skipped" => ProbeRecords[i].level = "warning"
        /\ Len(tracks) = Len(KeptRecords)
        /\ \A i \in DOMAIN tracks : tracks[i].filename = KeptRecords[i].text
        /\ (pc \notin IngestPositions /\ ~IngestInterrupted) => AllProbed
        /\ (pc \notin IngestPositions /\ AllProbed /\ ordered_filenames # << >>
                /\ KeptRecords = << >>) =>
               /\ raised = "ValidationError"
               /\ ~Called("merge")
               /\ pc = "returned" => exit_code = exit_status("ValidationError")
        /\ Called("merge") => tracks # << >>

C18_Witness ==
    /\ InRun
    /\ Called("merge")
    /\ Len(ordered_filenames) = 3
    /\ ProbeRecords[1].kind = "skipped"
    /\ ProbeRecords[2].kind = "probed"
    /\ ProbeRecords[3].kind = "skipped"
    /\ Len(tracks) = 1

(* the lines of order.txt that are neither blank nor comments *)
EntryLines ==
    SelectSeq(order_lines, LAMBDA line : line # << >> /\ ~StartsWithHash(line))

ManifestEntries == [i \in DOMAIN EntryLines |-> EntryLines[i][1]]

OrderingResolved == InRun /\ order_file_exists /\ pc = "select"

(* the run failed where the order is determined: files were found and      *)
(* none was probed                                                         *)
OrderingFailed ==
    /\ InRun /\ order_file_exists
    /\ pc \in {"except", "returned"}
    /\ raised = "ValidationError"
    /\ audio_files # {}
    /\ ProbeRecords = << >>

DuplicateNotices == SelectSeq(log, LAMBDA r : r.kind = "duplicates")

(* C19: with an order.txt the order is resolved exactly when the set of    *)
(* its entries is the set of discovered files; the resolved order is then  *)
(* the entries in file order, repeated entries kept and reported by one    *)
(* notice; otherwise the run fails with ValidationError before Merge.      *)
C19_ManifestOrdering ==
    /\ OrderingResolved =>
           /\ Range(ManifestEntries) = audio_files
           /\ ordered_filenames = ManifestEntries
           /\ IF Len(ManifestEntries) # Cardinality(Range(ManifestEntries))
              THEN /\ Len(DuplicateNotices) = 1
                   /\ DuplicateNotices[1].level = "info"
                   /\ DuplicateNotices[1].names = duplicates(ManifestEntries)
              ELSE DuplicateNotices = << >>
    /\ OrderingFailed =>
           /\ Range(ManifestEntries) # audio_files
           /\ ordered_filenames = << >>
           /\ ~Called("merge")
           /\ pc = "returned" => exit_code = exit_status("ValidationError")
    /\ ((OrderingResolved \/ OrderingFailed)
            /\ audio_files = {"a.mp3", "b.mp3"}
            /\ ManifestEntries = <<"a.mp3", "b.mp3", "a.mp3">>) =>
           /\ pc = "select"
           /\ ordered_filenames = <<"a.mp3", "b.mp3", "a.mp3">>
           /\ DuplicateNotices # << >>
           /\ DuplicateNotices[1].names = {"a.mp3"}

C19_Witness ==
    /\ OrderingResolved
    /\ audio_files = {"a.mp3", "b.mp3"}
    /\ ordered_filenames = <<"a.mp3", "b.mp3", "a.mp3">>
    /\ Len(DuplicateNotices) = 1

(* C20: when an order.txt of plain filenames both leaves out a discovered  *)
(* file and lists a file that was not discovered, the ValidationError      *)
(* names the files left out and the files not discovered.                  *)
C20_MessageNamesMissingAndExtra ==
    (/\ OrderingFailed
     /\ \A i \in DOMAIN ManifestEntries : ~HasSeparator(ManifestEntries[i])
     /\ audio_files \ Range(ManifestEntries) # {}
     /\ Range(ManifestEntries) \ audio_files # {}) =>
        /\ (audio_files \ Range(ManifestEntries)) \subseteq error_message.names
        /\ (Range(ManifestEntries) \ audio_files) \subseteq error_message.names

----------------------------------------------------------------------------
(* order.txt entries, natural sort and random selection *)

LineHasSeparator(line) == \E w \in DOMAIN line : HasSeparator(line[w])

(* the order has been determined from order.txt, or failed to be *)
OrderDetermined ==
    /\ InRun /\ order_file_exists
    /\ audio_files # {}
    /\ pc \notin {"ingest_stage", "determine_track_order"}

(* C21: blank lines and comment lines aside, an order.txt with a line that *)
(* has a path separator anywhere in it, after whitespace too, is rejected  *)
(* with ValidationError, and no such line gives the order a filename.      *)
C21_PathEntriesRejected ==
    (OrderDetermined
        /\ \E i \in DOMAIN EntryLines : LineHasSeparator(EntryLines[i])) =>
        /\ raised = "ValidationError"
        /\ ordered_filenames = << >>

Count(list, x) == Cardinality({ i \in DOMAIN list : list[i] = x })

IsPermutation(a, b) ==
    /\ Len(a) = Len(b)
    /\ \A i \in DOMAIN a : Count(a, a[i]) = Count(b, a[i])

NaturalBefore(x, y) ==
    KeyCompare(natural_sort_key(x), natural_sort_key(y)) = "lt"

(* C22: natural_sort never raises; its result is a permutation of the list *)
(* it was given in which no name comes after a name it precedes in the     *)
(* natural order (case folded, digit runs by value); [t10, t2, t1] gives   *)
(* [t1, t2, t10].                                                          *)
C22_NaturalSort ==
    pc = "sorted" =>
        /\ raised = "none"
        /\ IsPermutation(sorted_items, item_list)
        /\ \A i, j \in DOMAIN sorted_items :
               i < j => ~NaturalBefore(sorted_items[j], sorted_items[i])
        /\ item_list = <<"t10", "t2", "t1">> => sorted_items = <<"t1", "t2", "t10">>

(* C23: two listings of the same set of names are sorted into the same     *)
(* sequence.                                                               *)
C23_OrderIsFunctionOfSet ==
    (pc = "sorted" /\ raised = "none"
        /\ Cardinality(Range(item_list)) = Len(item_list)) =>
        sorted_items = sorted_reordered

(* C24: the step that selects tracks hands on exactly num_tracks entries   *)
(* from distinct positions of the resolved order when num_tracks is set    *)
(* and smaller than its length, and the resolved order itself otherwise.   *)
C24_RandomSelection ==
    [][(pc = "select" /\ pc' = "probe") =>
          IF num_tracks # 0 /\ num_tracks < Len(ordered_filenames)
          THEN /\ Len(ordered_filenames') = num_tracks
               /\ \E q \in [1..num_tracks -> DOMAIN ordered_filenames] :
                      /\ \A i, j \in 1..num_tracks : i # j => q[i] # q[j]
                      /\ \A i \in 1..num_tracks :
                             ordered_filenames'[i] = ordered_filenames[q[i]]
          ELSE ordered_filenames' = ordered_filenames]_vars

C24_Witness ==
    /\ InRun
    /\ pc = "probe"
    /\ num_tracks = 2
    /\ ManifestEntries = <<"a.mp3", "b.mp3", "a.mp3">>
    /\ ordered_filenames = <<"a.mp3", "a.mp3">>

----------------------------------------------------------------------------
(* timestamps *)

Offsets(stamps) == [i \in DOMAIN stamps |-> stamps[i].offset]

(* write_youtube_description takes the offsets it was given *)
Empirically ==
    actual_timestamps # << >> /\ Len(actual_timestamps) = Len(tracks)

(* tracks with the duration of the last one replaced *)
WithLastDuration(track_list, d) ==
    [i \in DOMAIN track_list |->
        IF i = Len(track_list)
        THEN [track_list[i] EXCEPT !.duration_s = d]
        ELSE track_list[i]]

(* C25: the computed offsets start at 0 and each next offset is the offset *)
(* before it plus that track's duration minus the crossfade; durations     *)
(* 10, 12, 8 with crossfade 2 give 0, 8, 18; the last duration has no      *)
(* effect on any offset.                                                   *)
C25_AnalyticalOffsets ==
    (pc = "described" /\ ~Empirically) =>
        /\ Len(timestamps) = Len(tracks)
        /\ tracks # << >> => timestamps[1].offset = 0
        /\ \A i \in 1..(Len(tracks) - 1) :
               timestamps[i + 1].offset =
                   timestamps[i].offset + tracks[i].duration_s - default_crossfade_s
        /\ ([i \in DOMAIN tracks |-> tracks[i].duration_s] =
                <<10 * TicksPerSecond, 12 * TicksPerSecond, 8 * TicksPerSecond>>
            /\ default_crossfade_s = 2 * TicksPerSecond) =>
               Offsets(timestamps) = <<0, 8 * TicksPerSecond, 18 * TicksPerSecond>>
        /\ \A d \in StampDurations :
               Offsets(generate_youtube_timestamps(
                           WithLastDuration(tracks, TicksPerSecond * d),
                           default_crossfade_s)) = Offsets(timestamps)

C25_Witness ==
    /\ pc = "described"
    /\ actual_timestamps = << >>
    /\ [i \in DOMAIN tracks |-> tracks[i].duration_s] =
           <<10 * TicksPerSecond, 12 * TicksPerSecond, 8 * TicksPerSecond>>
    /\ default_crossfade_s = 2 * TicksPerSecond
    /\ Offsets(timestamps) = <<0, 8 * TicksPerSecond, 18 * TicksPerSecond>>

(* C26: a written list of timestamps has one entry per track, starts at    *)
(* offset 0, never decreases, and is either the offsets that were measured *)
(* or the offsets that were computed, never a mix.                         *)
C26_TimestampMap ==
    (pc = "described" \/ timestamps # << >>) =>
        /\ Len(timestamps) = Len(tracks)
        /\ tracks # << >> => timestamps[1].offset = 0
        /\ \A i \in 1..(Len(timestamps) - 1) :
               timestamps[i].offset <= timestamps[i + 1].offset
        /\ \/ Offsets(timestamps) = actual_timestamps
           \/ \A i \in 1..(Len(timestamps) - 1) :
                  timestamps[i + 1].offset =
                      timestamps[i].offset + tracks[i].duration_s
                          - default_crossfade_s

(* C29: the offsets a run writes to the timestamp file advance by each     *)
(* track's duration minus the crossfade Merge scheduled after that track.  *)
C29_TimestampsUseScheduledCrossfades ==
    (InRun /\ timestamps # << >>) =>
        /\ Len(crossfades) = Len(tracks) - 1
        /\ \A i \in 1..(Len(tracks) - 1) :
               timestamps[i + 1].offset =
                   timestamps[i].offset + tracks[i].duration_s - crossfades[i]

----------------------------------------------------------------------------
(* the tempo loops *)

(* C30: the loops that split the tempo factor end for every factor: while  *)
(* the first loop has iterations left, those it has made have brought the  *)
(* tempo above the factor it started from, towards 0.5, and it has not run *)
(* MaxTempoNodes times; likewise downwards for the second loop.            *)
C30_TempoLoopsTerminate ==
    /\ (pc = "while_below" /\ TempoBelowHalf(tempo)) =>
           /\ Cardinality(TempoNodes) < MaxTempoNodes
           /\ TempoNodes # {} => tempo[1] * TempoUnit > config.tempo_factor * tempo[2]
    /\ (pc = "while_above" /\ TempoAboveTwo(tempo)) =>
           /\ Cardinality(TempoNodes) < MaxTempoNodes
           /\ TempoNodes # {} => tempo[1] * TempoUnit < config.tempo_factor * tempo[2]

----------------------------------------------------------------------------
(* the ledger of a successful run, and what each stage reads *)

Succeeded == Returned /\ exit_code = 0

StageStatuses == [i \in DOMAIN manifest.stages |-> manifest.stages[i].status]

RequestsWriting(path) ==
    { i \in DOMAIN requests : requests[i][Len(requests[i])] = path }

AestheticRan ==
    \E i \in DOMAIN manifest.stages :
        manifest.stages[i].name = "lofi" /\ manifest.stages[i].status = "success"

=============================================================================
